---- MODULE Spec2Model ----
(***************************************************************************)
(* Model of the Overpass QL -> SQL compiler (teritorio/overpass_parser).   *)
(*                                                                         *)
(* SQL text is modelled as a sequence of lexical tokens (strings): every   *)
(* literal piece of a format! string is one or more tokens, interpolated   *)
(* values are spliced in.  White space and indentation are not modelled.   *)
(* Option<T> is None == <<>> or Some(x) == <<x>>; an absent set name is    *)
(* NONE.  DefaultHasher is modelled as a collision-free function of the    *)
(* hashed text.                                                            *)
(***************************************************************************)
EXTENDS Integers, Sequences, FiniteSets, TLC

VARIABLES
    input,                  \* the request text, as its parse tree
    dialect,                \* "postgres" | "duckdb"
    srid,                   \* working SRID passed to to_sql
    COUNTER,                \* static COUNTER of subrequest.rs
    UNION_COUNTER,          \* static COUNTER of query_union.rs
    pc,                     \* "parse" | "lower" | "filter" | "build" | "done" | "panic"
    request,                \* the parsed Request (timeout, subrequest)
    idx,                    \* position of the map closure in subrequest.queries
    previous_default_set,   \* cursor of Subrequest::to_sql
    precomputed,            \* Vec<String> precomputed of Subrequest::to_sql
    clauses,                \* Vec<(bool, String, String)> of Subrequest::to_sql
    precomputed_sql,        \* Vec<String> precomputed_sql of Subrequest::to_sql
    lowered,                \* history: per lowered item, what was declared and read
    timeout_arg,            \* history: the argument passed to statement_timeout
    result,                 \* the statement list returned by Request::to_sql
    entry,                  \* history: the two counters when Subrequest::to_sql was entered
    emitted,                \* history: the Request and the result of the first call
    threads                 \* the compilations that run concurrently, each with its locals

vars == <<input, dialect, srid, COUNTER, UNION_COUNTER, pc, request, idx,
          previous_default_set, precomputed, clauses, precomputed_sql, lowered,
          timeout_arg, result, entry, emitted, threads>>

NONE == "<none>"

-----------------------------------------------------------------------------
(* Bounds *)

MaxItems == 3
MaxTimeout == 502

-----------------------------------------------------------------------------
(* Generic helpers on sequences of tokens *)

RECURSIVE Flatten(_)
Flatten(ss) == IF ss = <<>> THEN <<>> ELSE Head(ss) \o Flatten(Tail(ss))

\* Vec<String>::join(sep) where every element and sep are token sequences
RECURSIVE Join(_, _)
Join(ss, sep) ==
    IF ss = <<>> THEN <<>>
    ELSE IF Len(ss) = 1 THEN ss[1]
    ELSE ss[1] \o sep \o Join(Tail(ss), sep)

\* concatenation of a sequence of strings into one string
RECURSIVE Concat(_)
Concat(ss) == IF ss = <<>> THEN "" ELSE Head(ss) \o Concat(Tail(ss))

RECURSIVE JoinStr(_, _)
JoinStr(ss, sep) ==
    IF ss = <<>> THEN ""
    ELSE IF Len(ss) = 1 THEN ss[1]
    ELSE ss[1] \o sep \o JoinStr(Tail(ss), sep)

Tok(s) == IF s = "" THEN <<>> ELSE <<s>>

Contains(seq, x) == \E k \in 1..Len(seq) : seq[k] = x

Range(seq) == {seq[k] : k \in 1..Len(seq)}

Map(seq, Op(_)) == [k \in 1..Len(seq) |-> Op(seq[k])]

\* i64 / u32 Display
IntToString(n) == IF n < 0 THEN "-" \o ToString(0 - n) ELSE ToString(n)

-----------------------------------------------------------------------------
(* sql_dialect: the two dialects *)

Dialects == {"postgres", "duckdb"}

\* escape_literal: '{}' with every single quote doubled; s is a sequence of characters
EscapeChars(s) == Concat([k \in 1..Len(s) |-> IF s[k] = "'" THEN "''" ELSE s[k]])

Postgres_escape_literal(s) == "'" \o EscapeChars(s) \o "'"

Duckdb_escape_literal(s) == "'" \o EscapeChars(s) \o "'"

escape_literal(d, s) ==
    IF d = "postgres" THEN Postgres_escape_literal(s) ELSE Duckdb_escape_literal(s)

\* Option<T>
None == <<>>

Some(x) == <<x>>

IsSome(o) == o # <<>>

Unwrap(o) == o[1]

\* u32 Display of the limbs <<hi, lo>>; a value above 2^31 is written by its limbs
U32ToString(hi, lo) ==
    IF hi < 32768 THEN ToString(hi * 65536 + lo)
    ELSE ToString(hi) \o "*65536+" \o ToString(lo)

\* the dialect gives no timeout statement
Postgres_statement_timeout_none(ms) == None

\* statement_timeout(ms): Option<String>; ms is a u32 given by its limbs
Postgres_statement_timeout(ms) ==
    Some(<<"SET", "statement_timeout", "=", U32ToString(ms.hi, ms.lo), ";">>)

Duckdb_statement_timeout(ms) == None

statement_timeout(d, ms) ==
    IF d = "postgres" THEN Postgres_statement_timeout(ms) ELSE Duckdb_statement_timeout(ms)

Postgres_is_precompute == FALSE

Duckdb_is_precompute == TRUE

is_precompute(d) == IF d = "postgres" THEN Postgres_is_precompute ELSE Duckdb_is_precompute

\* precompute(set, sql): Option<Vec<String>>
Postgres_precompute(set, sql) == None

\* the statement that sets the variable is left without its terminator
Duckdb_precompute_unterminated(set, sql) ==
    Some(<< <<"CREATE", "TEMP", "TABLE", "_" \o set, "AS">> \o sql \o <<";">>,
            <<"SET", "variable", "_" \o set \o "_bbox", "=", "(",
              "SELECT", "STRUCT_PACK(xmin := min(bbox.xmin), ymin := min(bbox.ymin), xmax := max(bbox.xmax), ymax := max(bbox.ymax), geom := ST_Union_Agg(geom))",
              "AS", "bbox_geom", "FROM", "_" \o set, ")">> >>)

Duckdb_precompute(set, sql) ==
    Some(<< <<"CREATE", "TEMP", "TABLE", "_" \o set, "AS">> \o sql \o <<";">>,
            <<"SET", "variable", "_" \o set \o "_bbox", "=", "(",
              "SELECT", "STRUCT_PACK(xmin := min(bbox.xmin), ymin := min(bbox.ymin), xmax := max(bbox.xmax), ymax := max(bbox.ymax), geom := ST_Union_Agg(geom))",
              "AS", "bbox_geom", "FROM", "_" \o set, ")", ";">> >>)

precompute(d, set, sql) ==
    IF d = "postgres" THEN Postgres_precompute(set, sql) ELSE Duckdb_precompute(set, sql)

Postgres_id_in_list(field, values) ==
    <<field, "=", "ANY", "(ARRAY[" \o JoinStr(Map(values, IntToString), ", ") \o "])">>

Duckdb_id_in_list(field, values) ==
    <<"(">> \o Join([k \in 1..Len(values) |-> <<field, "=", IntToString(values[k])>>], <<"OR">>)
        \o <<")">>

id_in_list(d, field, values) ==
    IF d = "postgres" THEN Postgres_id_in_list(field, values)
    ELSE Duckdb_id_in_list(field, values)

Postgres_hash_exists(key) == <<"tags?" \o Postgres_escape_literal(key)>>

Duckdb_hash_exists(key) == <<"(tags->>" \o Duckdb_escape_literal(key) \o ")", "IS", "NOT", "NULL">>

hash_exists(d, key) ==
    IF d = "postgres" THEN Postgres_hash_exists(key) ELSE Duckdb_hash_exists(key)

Postgres_hash_get(key) == <<"tags->>" \o Postgres_escape_literal(key)>>

Duckdb_hash_get(key) == <<"(tags->>" \o Duckdb_escape_literal(key) \o ")">>

hash_get(d, key) == IF d = "postgres" THEN Postgres_hash_get(key) ELSE Duckdb_hash_get(key)

json_strip_nulls(d) == IF d = "postgres" THEN "jsonb_strip_nulls" ELSE ""

json_build_object(d) == IF d = "postgres" THEN "jsonb_build_object" ELSE "json_object"

jsonb_agg(d) == IF d = "postgres" THEN "jsonb_agg" ELSE "json_group_array"

st_union(d) == IF d = "postgres" THEN "ST_Union" ELSE ""

\* Option<String>
st_dump_points(d) == IF d = "postgres" THEN Some("ST_DumpPoints") ELSE None

\* st_transform / st_transform_reverse: geom and the SRID are token sequences
Postgres_st_transform(geom, s) == <<"ST_Transform", "(">> \o geom \o <<",">> \o s \o <<")">>

Duckdb_st_transform(geom, s) ==
    IF s = <<"4326">> THEN geom
    ELSE <<"ST_Transform", "(">> \o geom \o <<",", "'EPSG:4326'", ",", "'EPSG:">> \o s
            \o <<"'", ")">>

st_transform(d, geom, s) ==
    IF d = "postgres" THEN Postgres_st_transform(geom, s) ELSE Duckdb_st_transform(geom, s)

Postgres_st_transform_reverse(geom, s) ==
    <<"ST_Transform", "(">> \o geom \o <<",", "4326", ")">>

Duckdb_st_transform_reverse(geom, s) ==
    IF s = <<"4326">> THEN geom
    ELSE <<"ST_Transform", "(">> \o geom \o <<",", "'EPSG:">> \o s
            \o <<"'", ",", "'EPSG:4326'", ")">>

st_transform_reverse(d, geom, s) ==
    IF d = "postgres" THEN Postgres_st_transform_reverse(geom, s)
    ELSE Duckdb_st_transform_reverse(geom, s)

st_asgeojson(d, geom, digits) ==
    IF d = "postgres" THEN <<"ST_AsGeoJSON", "(">> \o geom \o <<",", ToString(digits), ")">>
    ELSE <<"ST_AsGeoJSON", "(">> \o geom \o <<")">>

BboxField(fn, g, cast) == <<fn, "(">> \o g \o <<")">> \o Tok(cast)

Postgres_json_build_bbox(geom, s) ==
    LET g == Postgres_st_transform_reverse(geom, s) IN
    <<"jsonb_build_object", "(", "'minlon'", ",">> \o BboxField("ST_XMin", g, "::numeric")
      \o <<",", "'minlat'", ",">> \o BboxField("ST_YMin", g, "::numeric")
      \o <<",", "'maxlon'", ",">> \o BboxField("ST_XMax", g, "::numeric")
      \o <<",", "'maxlat'", ",">> \o BboxField("ST_YMax", g, "::numeric") \o <<")">>

Duckdb_json_build_bbox(geom, s) ==
    LET g == Duckdb_st_transform_reverse(geom, s) IN
    IF g = <<"geom">>
    THEN <<"json_object", "(", "'minlon'", ",", "bbox.xmin", ",", "'minlat'", ",", "bbox.ymin", ",",
           "'maxlon'", ",", "bbox.xmax", ",", "'maxlat'", ",", "bbox.ymax", ")">>
    ELSE <<"json_object", "(", "'minlon'", ",">> \o BboxField("ST_XMin", g, "")
      \o <<",", "'minlat'", ",">> \o BboxField("ST_YMin", g, "")
      \o <<",", "'maxlon'", ",">> \o BboxField("ST_XMax", g, "")
      \o <<",", "'maxlat'", ",">> \o BboxField("ST_YMax", g, "") \o <<")">>

json_build_bbox(d, geom, s) ==
    IF d = "postgres" THEN Postgres_json_build_bbox(geom, s) ELSE Duckdb_json_build_bbox(geom, s)

\* table_precompute_geom(set): a geometry expression; ".geom" is a token of its own
Postgres_table_precompute_geom(other) == <<"_" \o other, ".geom">>

Duckdb_table_precompute_geom(other) == <<"getvariable('_" \o other \o "_bbox')", ".geom">>

table_precompute_geom(d, other) ==
    IF d = "postgres" THEN Postgres_table_precompute_geom(other)
    ELSE Duckdb_table_precompute_geom(other)

\* other.replace(".geom", "")
StripGeom(other) == SelectSeq(other, LAMBDA t : t # ".geom")

Postgres_st_intersects_extent_with_geom(table, geom) ==
    <<"ST_Intersects", "(">> \o geom \o <<",", table \o ".geom", ")">>

Duckdb_st_intersects_extent_with_geom(table, other) ==
    <<table \o ".bbox.xmin", "<=">> \o other \o <<".xmax", "AND",
      table \o ".bbox.xmax", ">=">> \o other \o <<".xmin", "AND",
      table \o ".bbox.ymin", "<=">> \o other \o <<".ymax", "AND",
      table \o ".bbox.ymax", ">=">> \o other \o <<".ymin">>

st_intersects_extent_with_geom(d, table, other) ==
    IF d = "postgres" THEN Postgres_st_intersects_extent_with_geom(table, other)
    ELSE Duckdb_st_intersects_extent_with_geom(table, other)

Postgres_st_intersects_with_geom(table, geom) ==
    <<"ST_Intersects", "(">> \o geom \o <<",", table \o ".geom", ")">>

Duckdb_st_intersects_with_geom(table, other) ==
    Duckdb_st_intersects_extent_with_geom(table, StripGeom(other))
        \o <<"AND", "ST_Intersects", "(">> \o other \o <<",", table \o ".geom", ")">>

st_intersects_with_geom(d, table, other) ==
    IF d = "postgres" THEN Postgres_st_intersects_with_geom(table, other)
    ELSE Duckdb_st_intersects_with_geom(table, other)

-----------------------------------------------------------------------------
(* subrequest.rs: SubrequestJoin (with the precompute_set field that          *)
(* filters.rs, query_objects.rs and query_union.rs fill in)                   *)

SubrequestJoin(ps, pre, from, cl) ==
    [precompute_set |-> ps, precompute |-> pre, from |-> from, clauses |-> cl]

UnwrapOrDefault(o) == IF IsSome(o) THEN Unwrap(o) ELSE <<>>

\* the element of a singleton: { f(r) : r \in {e} } binds r to the value of e
Only(S) == CHOOSE v \in S : TRUE

-----------------------------------------------------------------------------
(* filters.rs *)

NoFilter == [bbox |-> None, poly |-> None, ids |-> None, area_id |-> NONE, around |-> None]

\* DefaultHasher over the polygon text: collision free
Hash(text) == JoinStr(text, " ")

\* latitude before longitude in both points
Filter_bbox_clauses_lat_first(d, table, bbox, s) ==
    st_intersects_extent_with_geom(d, table,
        st_transform(d,
            <<"ST_Envelope", "(",
              "'SRID=4326;LINESTRING(" \o IntToString(bbox[1]) \o " " \o IntToString(bbox[2])
                 \o ", " \o IntToString(bbox[3]) \o " " \o IntToString(bbox[4]) \o ")'::geometry",
              ")">>,
            <<s>>))

Filter_bbox_clauses(d, table, bbox, s) ==
    st_intersects_extent_with_geom(d, table,
        st_transform(d,
            <<"ST_Envelope", "(",
              "'SRID=4326;LINESTRING(" \o IntToString(bbox[2]) \o " " \o IntToString(bbox[1])
                 \o ", " \o IntToString(bbox[4]) \o " " \o IntToString(bbox[3]) \o ")'::geometry",
              ")">>,
            <<s>>))

PolyCoords(poly) ==
    JoinStr([k \in 1..Len(poly) |-> IntToString(poly[k][2]) \o " " \o IntToString(poly[k][1])],
            ", ")

PolyText(d, poly, s) ==
    st_transform(d, <<"'SRID=4326;POLYGON((" \o PolyCoords(poly) \o "))'::geometry">>, <<s>>)

PolyId(d, poly, s) == "poly_" \o Hash(PolyText(d, poly, s))

\* returns the pair (companion set, clause)
Filter_poly_clauses(d, set, poly, s) ==
    LET poly_id == PolyId(d, poly, s) IN
    << SubrequestJoin(poly_id, None, None,
          <<"SELECT", "geom", ",",
            "STRUCT_PACK(xmin := ST_XMin(geom), ymin := ST_YMin(geom), xmax := ST_XMax(geom), ymax := ST_YMax(geom))",
            "AS", "bbox", "FROM", "VALUES", "(", "(">> \o PolyText(d, poly, s)
            \o <<")", ")", "AS", "p(geom)">>),
       SubrequestJoin(NONE,
          IF is_precompute(d) THEN Some(<<poly_id>>) ELSE None,
          IF ~is_precompute(d) THEN Some(<<"JOIN", "_" \o poly_id, "ON", "true">>) ELSE None,
          st_intersects_with_geom(d, set, table_precompute_geom(d, poly_id))) >>

Filter_around_clause(d, set, s, around) ==
    LET core_geom == <<"(", "SELECT">> \o Tok(st_union(d)) \o <<"(geom)", "FROM",
                       "_" \o around.core, ")">>
        utm_zone == <<"32600", "+", "CASE", "WHEN", "ST_Y", "(", "ST_Centroid", "(">>
                    \o core_geom \o <<")", ")", ">=", "0", "THEN", "1", "ELSE", "31", "END",
                       "+", "floor", "(", "ST_X", "(", "ST_Centroid", "(">>
                    \o core_geom \o <<")", "+", "180", ")", "/", "6", ")">>
    IN  st_intersects_with_geom(d, set,
            st_transform(d,
                <<"ST_Buffer", "(">> \o st_transform(d, core_geom, utm_zone)
                    \o <<",", IntToString(around.radius), ")">>,
                <<s>>))

\* the clause of an area filter that joins the set in every dialect
Filter_area_id_clause_always_joins(d, set, area_id) ==
    SubrequestJoin(NONE,
        IF is_precompute(d) THEN Some(<<area_id>>) ELSE None,
        Some(<<"JOIN", "_" \o area_id, "ON", "true">>),
        st_intersects_with_geom(d, set, table_precompute_geom(d, area_id)))

Filter_area_id_clause(d, set, area_id) ==
    SubrequestJoin(NONE,
        IF is_precompute(d) THEN Some(<<area_id>>) ELSE None,
        IF ~is_precompute(d) THEN Some(<<"JOIN", "_" \o area_id, "ON", "true">>) ELSE None,
        st_intersects_with_geom(d, set, table_precompute_geom(d, area_id)))

\* Filter::to_sql: the pair (pre, join)
Filter_to_sql(f, d, set, s) ==
    LET cl == (IF IsSome(f.bbox)
               THEN <<SubrequestJoin(NONE, None, None,
                        Filter_bbox_clauses(d, set, Unwrap(f.bbox), s))>>
               ELSE <<>>)
              \o (IF IsSome(f.poly)
                  THEN <<Filter_poly_clauses(d, set, Unwrap(f.poly), s)[2]>> ELSE <<>>)
              \o (IF IsSome(f.ids)
                  THEN <<SubrequestJoin(NONE, None, None, id_in_list(d, "id", Unwrap(f.ids)))>>
                  ELSE <<>>)
              \o (IF f.area_id # NONE
                  THEN <<Filter_area_id_clause(d, set, f.area_id)>> ELSE <<>>)
              \o (IF IsSome(f.around)
                  THEN <<SubrequestJoin(NONE, None, None,
                           Filter_around_clause(d, set, s, Unwrap(f.around)))>>
                  ELSE <<>>)
        pre == IF IsSome(f.poly)
               THEN Some(Filter_poly_clauses(d, set, Unwrap(f.poly), s)[1]) ELSE None
        froms == SelectSeq(cl, LAMBDA c : IsSome(c.from))
    IN  << pre,
           SubrequestJoin(NONE,
              Some(Flatten([k \in 1..Len(cl) |-> UnwrapOrDefault(cl[k].precompute)])),
              IF froms # <<>> THEN Some(Flatten([k \in 1..Len(froms) |-> Unwrap(froms[k].from)]))
              ELSE None,
              Join([k \in 1..Len(cl) |-> cl[k].clauses], <<"AND">>)) >>

Filters_has_ids(filters) == \E k \in 1..Len(filters) : IsSome(filters[k].ids)

\* the last Some among the companions of the filters (pre is overwritten)
RECURSIVE LastPre(_)
LastPre(pres) ==
    IF pres = <<>> THEN None
    ELSE IF IsSome(pres[Len(pres)]) THEN pres[Len(pres)]
    ELSE LastPre(SubSeq(pres, 1, Len(pres) - 1))

\* Filters::to_sql: the pair (pre, join)
Filters_to_sql(filters, d, set, s) ==
    LET r == [k \in 1..Len(filters) |-> Filter_to_sql(filters[k], d, set, s)]
        sj == [k \in 1..Len(filters) |-> r[k][2]]
        from == Flatten([k \in 1..Len(sj) |-> UnwrapOrDefault(sj[k].from)])
    IN  << LastPre([k \in 1..Len(filters) |-> r[k][1]]),
           SubrequestJoin(NONE,
              Some(Flatten([k \in 1..Len(sj) |-> UnwrapOrDefault(sj[k].precompute)])),
              IF from # <<>> THEN Some(from) ELSE None,
              Join([k \in 1..Len(sj) |-> sj[k].clauses], <<"AND">>)) >>

-----------------------------------------------------------------------------
(* selectors.rs *)

\* Selector::to_sql; a selector with an operator and neither value nor regex panics
Selector_panics(sel) ==
    sel.operator # NONE /\ ~IsSome(sel.value) /\ ~IsSome(sel.value_regex)

\* the value is quoted as it is
Selector_to_sql_raw_value(sel, d) ==
    LET key == hash_exists(d, sel.key)
        value == "'" \o Concat(IF IsSome(sel.value) THEN Unwrap(sel.value)
                               ELSE Unwrap(sel.value_regex)) \o "'"
    IN  IF sel.operator = NONE
        THEN (IF sel.not THEN <<"NOT">> \o key ELSE key)
        ELSE IF sel.operator \in {"=", "~"}
             THEN <<"(">> \o key \o <<"AND">> \o hash_get(d, sel.key)
                    \o <<sel.operator, value, ")">>
             ELSE <<"(", "NOT">> \o key \o <<"OR">> \o hash_get(d, sel.key)
                    \o <<sel.operator, value, ")">>

Selector_to_sql(sel, d) ==
    LET key == hash_exists(d, sel.key)
        value == IF IsSome(sel.value) THEN escape_literal(d, Unwrap(sel.value))
                 ELSE IF IsSome(sel.value_regex)
                      THEN "'" \o Concat(Unwrap(sel.value_regex)) \o "'"
                      ELSE "<panic>"
    IN  IF sel.operator = NONE
        THEN (IF sel.not THEN <<"NOT">> \o key ELSE key)
        ELSE IF sel.operator = "=" /\ value = ""
             THEN <<"NOT">> \o key
        ELSE IF sel.operator \in {"=", "~"}
             THEN <<"(">> \o key \o <<"AND">> \o hash_get(d, sel.key)
                    \o <<sel.operator, value, ")">>
             ELSE <<"(", "NOT">> \o key \o <<"OR">> \o hash_get(d, sel.key)
                    \o <<sel.operator, value, ")">>

\* Regex::is_match for a pattern without metacharacters: the pattern stands in the value
is_match(regex, value) ==
    \E k \in 1..(Len(value) - Len(regex) + 1) : SubSeq(value, k, k + Len(regex) - 1) = regex

\* Selector::matches: Option<Vec<&str>>; tags is a function from the keys present
Selector_matches(sel, tags) ==
    IF sel.operator = NONE /\ sel.not /\ sel.key \notin DOMAIN tags THEN Some(<<>>)
    ELSE IF (IF sel.operator = NONE
             THEN (IF sel.not THEN FALSE ELSE sel.key \in DOMAIN tags)
             ELSE IF sel.key \notin DOMAIN tags THEN FALSE
             ELSE IF IsSome(sel.value)
                  THEN (CASE sel.operator = "=" -> tags[sel.key] = Unwrap(sel.value)
                          [] sel.operator = "!=" -> tags[sel.key] # Unwrap(sel.value))
                  ELSE (CASE sel.operator = "~" -> is_match(Unwrap(sel.value_regex), tags[sel.key])
                          [] sel.operator = "!~" ->
                                is_match(Unwrap(sel.value_regex), tags[sel.key])))
         THEN Some(<<sel.key>>)
         ELSE None

\* n.sort(); n.dedup(): the keys of n once each, in the order of the keys
SortDedup(n, order) == SelectSeq(order, LAMBDA key : Contains(n, key))

\* Selectors::matches
Selectors_matches(selectors, tags, order) ==
    Only({ IF \E k \in 1..Len(m) : m[k] = None THEN None
           ELSE Some(SortDedup(Flatten([k \in 1..Len(m) |-> Unwrap(m[k])]), order)) :
           m \in {[k \in 1..Len(selectors) |-> Selector_matches(selectors[k], tags)]} })

-----------------------------------------------------------------------------
(* query_objects.rs *)

\* self.object_type.chars().next()
FirstChar(object_type) ==
    CASE object_type = "node" -> "n"
      [] object_type = "way" -> "w"
      [] object_type = "relation" -> "r"
      [] object_type = "nwr" -> "n"
      [] object_type = "area" -> "a"

QueryObjects_from_table(q, default_set) ==
    IF q.set = NONE
    THEN (IF q.filters # None /\ Filters_has_ids(Unwrap(q.filters))
          THEN q.object_type \o "_by_id"
          ELSE q.object_type \o "_by_geom")
    ELSE IF q.set = "_" THEN default_set
    ELSE "_" \o q.set

QueryObjects_where_clauses(q, d, s, default_set) ==
    (IF q.object_type = "nwr" THEN <<>>
     ELSE IF q.object_type # "area"
          THEN << <<"osm_type", "=", "'" \o FirstChar(q.object_type) \o "'">> >>
          ELSE <<>>)
    \o (IF q.selectors # <<>>
        THEN << Join([k \in 1..Len(q.selectors) |-> Selector_to_sql(q.selectors[k], d)],
                     <<"AND">>) >>
        ELSE <<>>)
    \o (IF q.filters # None
        THEN << Filters_to_sql(Unwrap(q.filters), d,
                               QueryObjects_from_table(q, default_set), s)[2].clauses >>
        ELSE <<>>)

\* QueryObjects::to_sql: Vec<SubrequestJoin>
QueryObjects_to_sql(q, d, s, default_set) ==
    LET from_table == QueryObjects_from_table(q, default_set)
        fs == IF q.filters # None THEN Filters_to_sql(Unwrap(q.filters), d, from_table, s)
              ELSE <<None, SubrequestJoin(NONE, None, None, <<>>)>>
        pre == fs[1]
        pre_computed == UnwrapOrDefault(fs[2].precompute)
        from == <<from_table>> \o UnwrapOrDefault(fs[2].from)
        where_clause == <<"WHERE">> \o Join(QueryObjects_where_clauses(q, d, s, default_set),
                                            <<"AND">>)
    IN  (IF IsSome(pre) THEN <<Unwrap(pre)>> ELSE <<>>)
        \o << SubrequestJoin(NONE, Some(pre_computed), None,
                <<"SELECT", from_table \o ".*", "FROM">> \o from \o where_clause) >>

-----------------------------------------------------------------------------
(* query_recurse.rs *)

Recordset(type) ==
    <<"(", "SELECT", "*", "FROM", "jsonb_to_recordset(members)", "AS",
      "t(ref bigint, role text, type text)", "WHERE", "type", "=", "'" \o type \o "'", ")">>

\* QueryRecurse::to_sql: String
QueryRecurse_to_sql(default_set) ==
    <<"SELECT", "way.*", "FROM", default_set, "AS", "way",
      "JOIN", "node", "ON", "node.id", "=", "ANY(way.nodes)", "AND", "node.geom", "&&", "way.geom",
      "WHERE", "way.osm_type", "=", "'w'",
      "UNION", "ALL",
      "SELECT", "node.*", "FROM", default_set, "AS", "relation",
      "JOIN", "LATERAL">> \o Recordset("n") \o <<"AS", "members", "ON", "type", "=", "'w'",
      "JOIN", "node", "ON", "node.id", "=", "members.ref",
      "WHERE", "relation.osm_type", "=", "'r'",
      "UNION", "ALL",
      "SELECT", "way.*", "FROM", default_set, "AS", "relation",
      "JOIN", "LATERAL">> \o Recordset("w") \o <<"AS", "members", "ON", "true",
      "JOIN", "way", "ON", "way.id", "=", "members.ref",
      "WHERE", "relation.osm_type", "=", "'r'">>

-----------------------------------------------------------------------------
(* query_union.rs and the QueryType dispatch of subrequest.rs *)

\* node.geom && way.geom: the two extents meet
Overlaps(a, b) == a.geom \cap b.geom # {}

\* rows of jsonb_to_recordset(members) AS t(ref, role, type) WHERE type = t
Members(relation, t) ==
    {relation.members[k] : k \in {j \in 1..Len(relation.members) : relation.members[j].type = t}}

\* the rows of the three branches of QueryRecurse::to_sql over the set S, each a SELECT of
\* the text: the row kept is the one the projection names (way.*, node.*, way.*)
QueryRecurse_rows(S, node, way) ==
    << { w \in S : /\ w.osm_type = "w"
                   /\ \E n \in node : /\ \E k \in 1..Len(w.nodes) : n.id = w.nodes[k]
                                      /\ Overlaps(n, w) },
       { n \in node : \E relation \in S :
                         /\ relation.osm_type = "r"
                         /\ \E members \in Members(relation, "n") :
                               /\ members.type = "w"
                               /\ n.id = members.ref },
       { w \in way : \E relation \in S :
                        /\ relation.osm_type = "r"
                        /\ \E members \in Members(relation, "w") :
                              /\ TRUE
                              /\ w.id = members.ref } >>

\* QueryType::asignation: Option<Box<str>>
QueryType_asignation(q) == q.asignation

\* "_{set} AS ( sql )"
Binding(set, sql) == <<"_" \o set, "AS", "(">> \o sql \o <<")">>

RECURSIVE QueryType_to_sql(_, _, _, _, _)
RECURSIVE QueryUnion_children(_, _, _, _)

\* the closure for one child when the companion sets stay among the members
RECURSIVE QueryUnion_joins_companions_members(_, _, _)
QueryUnion_joins_companions_members(sjs, child, acc) ==
    IF sjs = <<>> THEN acc
    ELSE QueryUnion_joins_companions_members(Tail(sjs), child,
            Only({ [ret |-> acc.ret,
                    precomputed |-> acc.precomputed \o UnwrapOrDefault(Head(sjs).precompute),
                    previous_default_set |->
                        IF named = NONE THEN ToString(acc.counter) ELSE acc.previous_default_set,
                    clauses |-> Append(acc.clauses,
                                   <<IF named = NONE THEN ToString(acc.counter) ELSE named,
                                     Head(sjs).clauses>>),
                    counter |-> IF named = NONE THEN acc.counter + 1 ELSE acc.counter] :
                   named \in {IF Head(sjs).precompute_set # NONE THEN Head(sjs).precompute_set
                              ELSE QueryType_asignation(child)} }))

\* the closure of `sjs.iter().for_each` for one child: acc is (ret, precomputed,
\* previous_default_set, clauses, counter)
RECURSIVE QueryUnion_joins(_, _, _)
QueryUnion_joins(sjs, child, acc) ==
    IF sjs = <<>> THEN acc
    ELSE LET sj == Head(sjs)
             named == IF sj.precompute_set # NONE THEN sj.precompute_set
                      ELSE QueryType_asignation(child)
             fresh == named = NONE
             set == IF fresh THEN ToString(acc.counter) ELSE named
         IN  QueryUnion_joins(Tail(sjs), child,
                [ret |-> IF sj.precompute_set # NONE THEN Append(acc.ret, sj) ELSE acc.ret,
                 precomputed |-> acc.precomputed \o UnwrapOrDefault(sj.precompute),
                 previous_default_set |-> IF fresh THEN set ELSE acc.previous_default_set,
                 clauses |-> IF sj.precompute_set # NONE THEN acc.clauses
                             ELSE Append(acc.clauses, <<set, sj.clauses>>),
                 counter |-> IF fresh THEN acc.counter + 1 ELSE acc.counter])

QueryUnion_children(queries, d, s, acc) ==
    IF queries = <<>> THEN acc
    ELSE LET r == QueryType_to_sql(Head(queries), d, s, acc.previous_default_set, acc.counter)
         IN  QueryUnion_children(Tail(queries), d, s,
                QueryUnion_joins(r.sjs, Head(queries), [acc EXCEPT !.counter = r.counter]))

\* QueryUnion::to_sql: Vec<SubrequestJoin>, and the value of the union's COUNTER after it
QueryUnion_to_sql(u, d, s, default_set, counter) ==
    LET acc == QueryUnion_children(u.queries, d, s,
                  [ret |-> <<>>, precomputed |-> <<>>, previous_default_set |-> default_set,
                   clauses |-> <<>>, counter |-> counter])
        with == Join([k \in 1..Len(acc.clauses) |->
                        Binding(acc.clauses[k][1], acc.clauses[k][2])], <<",">>)
        asignations == Join([k \in 1..Len(acc.clauses) |->
                        <<"(", "SELECT", "*", "FROM", "_" \o acc.clauses[k][1], ")">>],
                        <<"UNION">>)
    IN  [sjs |-> IF acc.clauses # <<>>
                 THEN Append(acc.ret,
                        SubrequestJoin(NONE, Some(acc.precomputed), None,
                          <<"WITH">> \o with
                          \o <<"SELECT", "DISTINCT", "ON", "(osm_type, id)", "*", "FROM", "(">>
                          \o asignations \o <<")", "AS", "t", "ORDER", "BY", "osm_type, id">>))
                 ELSE acc.ret,
         counter |-> acc.counter]

\* QueryType::to_sql: the joins of a query and the union COUNTER after it
QueryType_to_sql(q, d, s, default_set, counter) ==
    CASE q.kind = "objects" ->
            [sjs |-> QueryObjects_to_sql(q, d, s, default_set), counter |-> counter]
      [] q.kind = "union" -> QueryUnion_to_sql(q, d, s, default_set, counter)
      [] q.kind = "recurse" ->
            [sjs |-> <<SubrequestJoin(NONE, None, None, QueryRecurse_to_sql(default_set))>>,
             counter |-> counter]

-----------------------------------------------------------------------------
(* out.rs *)

OutGeoms == {"geom", "center", "bb", "ids"}

OutLevels == {"ids", "skel", "body", "tags", "meta"}

\* Out::default()
Out_default == [kind |-> "out", set |-> NONE, geom |-> "geom", level_of_details |-> "body"]

Numeric(fn, g) == <<fn, "(">> \o g \o <<")", "::numeric">>

Out_meta_fields(out) ==
    IF out.level_of_details = "meta"
    THEN <<",", "'timestamp'", ",", "created", ",", "'version'", ",", "version",
           ",", "'changeset'", ",", "changeset", ",", "'user'", ",", "\"user\"",
           ",", "'uid'", ",", "uid">>
    ELSE <<>>

Out_geom_center(out, d, s) ==
    LET rev == st_transform_reverse(d, <<"geom">>, <<s>>) IN
    IF out.geom = "center"
    THEN <<",", "'center'", ",", "CASE", "osm_type = 'w' OR osm_type = 'r'", "WHEN", "true",
           "THEN", json_build_object(d), "(", "'lon'", ",">>
           \o Numeric("ST_X", <<"ST_PointOnSurface", "(">> \o rev \o <<")">>)
           \o <<",", "'lat'", ",">>
           \o Numeric("ST_Y", <<"ST_PointOnSurface", "(">> \o rev \o <<")">>)
           \o <<")", "END">>
    ELSE <<>>

Out_geom_bb_geom(out, d, s) ==
    IF out.geom = "bb" \/ out.geom = "geom"
    THEN <<",", "'bounds'", ",", "CASE", "osm_type = 'w' OR osm_type = 'r'", "WHEN", "true",
           "THEN">> \o json_build_bbox(d, <<"geom">>, <<s>>) \o <<"END">>
    ELSE <<>>

Out_geom(out, d, s) ==
    LET rev == st_transform_reverse(d, <<"geom">>, <<s>>)
        geojson == st_asgeojson(d, rev, 7)
        w == IF IsSome(st_dump_points(d))
             THEN <<"(", "SELECT", jsonb_agg(d), "(", json_build_object(d), "(", "'lon'", ",">>
                    \o Numeric("ST_X", rev) \o <<",", "'lat'", ",">> \o Numeric("ST_Y", rev)
                    \o <<")", ")", "FROM", Unwrap(st_dump_points(d)) \o "(geom)", ")">>
             ELSE <<"replace", "(", "replace", "(", "replace", "(", "replace", "(", "replace",
                    "(", "(", "CASE", "ST_GeometryType(geom)", "WHEN", "'LINESTRING'", "THEN">>
                    \o geojson \o <<"->'coordinates'", "ELSE">> \o geojson
                    \o <<"->'coordinates'->0", "END", ")", "::text",
                         ",", "'['", ",", "'{\"lon\":'", ")",
                         ",", "','", ",", "',\"lat\":'", ")",
                         ",", "'{\"lon\":{\"lon\":'", ",", "'[{\"lon\":'", ")",
                         ",", "'],\"lat\":{\"lon\":'", ",", "'},{\"lon\":'", ")",
                         ",", "']]'", ",", "'}]'", ")", "::json">>
    IN  IF out.geom = "geom"
        THEN <<",", "'geometry'", ",", "CASE", "osm_type", "WHEN", "'w'", "THEN">> \o w
               \o <<"END">>
        ELSE <<>>

Out_way_member_nodes_field(out) ==
    IF out.level_of_details \in {"skel", "body", "meta"}
    THEN <<",", "'nodes'", ",", "nodes">> ELSE <<>>

Out_relations_members_field(out) ==
    IF out.level_of_details \in {"skel", "body", "meta"}
    THEN <<",", "'members'", ",", "members">> ELSE <<>>

\* the tags are left out at the level "tags"
Out_tags_field_body_meta(out) ==
    IF out.level_of_details \in {"body", "meta"}
    THEN <<",", "'tags'", ",", "tags">> ELSE <<>>

Out_tags_field(out) ==
    IF out.level_of_details \in {"body", "tags", "meta"}
    THEN <<",", "'tags'", ",", "tags">> ELSE <<>>

\* the set an Out reads: self.set.clone().unwrap_or(default_set)
Out_set(out, default_set) == IF out.set # NONE THEN out.set ELSE default_set

Out_projection(out, d, s) ==
    LET rev == st_transform_reverse(d, <<"geom">>, <<s>>) IN
    Tok(json_strip_nulls(d)) \o <<"(", json_build_object(d), "(",
      "'type'", ",", "CASE", "osm_type", "WHEN", "'n'", "THEN", "'node'", "WHEN", "'w'", "THEN",
          "'way'", "WHEN", "'r'", "THEN", "'relation'", "WHEN", "'a'", "THEN", "'area'", "END",
      ",", "'id'", ",", "id",
      ",", "'lon'", ",", "CASE", "osm_type", "WHEN", "'n'", "THEN">> \o Numeric("ST_X", rev)
      \o <<"END",
      ",", "'lat'", ",", "CASE", "osm_type", "WHEN", "'n'", "THEN">> \o Numeric("ST_Y", rev)
      \o <<"END">>
      \o Out_meta_fields(out) \o Out_geom_center(out, d, s) \o Out_geom_bb_geom(out, d, s)
      \o Out_geom(out, d, s) \o Out_way_member_nodes_field(out)
      \o Out_relations_members_field(out) \o Out_tags_field(out)
      \o <<")", ")", "AS", "j">>

\* the geometry is selected beside the object
Out_to_sql_with_geom(out, d, s, default_set) ==
    <<"SELECT">> \o Out_projection(out, d, s)
        \o <<",", "geom", "FROM", "_" \o Out_set(out, default_set)>>

\* Out::to_sql
Out_to_sql(out, d, s, default_set) ==
    <<"SELECT">> \o Out_projection(out, d, s) \o <<"FROM", "_" \o Out_set(out, default_set)>>

-----------------------------------------------------------------------------
(* request.rs: the timeout.  A u32 is the pair <<hi, lo>> of its 16-bit limbs,  *)
(* a number of the text may have hi > 65535 (it does not fit a u32).           *)

Limb == 65536

DefaultTimeout == 160

FallbackTimeout == 180

TimeoutCap == 500

U32(n) == <<n \div Limb, n % Limb>>

\* str::parse::<u32>(): Ok iff the number fits
ParseU32Ok(num) == num[1] < Limb /\ num[2] < Limb

\* u32::min(self, cap) for a cap below 2^16
U32Min(t, cap) == IF t[1] > 0 \/ t[2] > cap THEN <<0, cap>> ELSE t

\* u32 `*` with a factor below 2^16: the product, and whether it overflowed
U32Mul(t, k) ==
    LET low == t[2] * k
        high == t[1] * k + (low \div Limb)
    IN  [overflow |-> high >= Limb, hi |-> high % Limb, lo |-> low % Limb]

\* Request::default() and the Rule::metadata arm of Request::from_pest
Request_timeout(meta) ==
    IF ~meta.present THEN Some(U32(DefaultTimeout))
    ELSE IF IsSome(meta.number) THEN Some(Unwrap(meta.number))
    ELSE None

Request_from_pest_panics(meta) ==
    meta.present /\ IsSome(meta.number) /\ ~ParseU32Ok(Unwrap(meta.number))

\* the cap is left out: self.timeout.unwrap_or(180) * 1000
Request_timeout_ms_uncapped(timeout) ==
    U32Mul(IF IsSome(timeout) THEN Unwrap(timeout) ELSE U32(FallbackTimeout), 1000)

\* self.timeout.unwrap_or(180).min(500) * 1000
Request_timeout_ms(timeout) ==
    U32Mul(U32Min(IF IsSome(timeout) THEN Unwrap(timeout) ELSE U32(FallbackTimeout),
                  TimeoutCap), 1000)

-----------------------------------------------------------------------------
(* subrequest.rs: Subrequest::to_sql *)

IsOut(item) == item.kind = "out"

Items == request.subrequest.queries

Clause(is_out, set, sql) == [is_out |-> is_out, set |-> set, sql |-> sql]

\* the joins of a query when every set takes its name from the counter
RECURSIVE Subrequest_joins_always_fresh(_, _, _)
Subrequest_joins_always_fresh(sjs, query_type, acc) ==
    IF sjs = <<>> THEN acc
    ELSE Subrequest_joins_always_fresh(Tail(sjs), query_type,
            [precomputed |-> acc.precomputed \o UnwrapOrDefault(Head(sjs).precompute),
             previous_default_set |-> ToString(acc.counter),
             clauses |-> Append(acc.clauses,
                                Clause(FALSE, ToString(acc.counter), Head(sjs).clauses)),
             counter |-> acc.counter + 1])

\* one join returned by a query: (precomputed, previous_default_set, clauses, COUNTER)
RECURSIVE Subrequest_joins(_, _, _)
Subrequest_joins(sjs, query_type, acc) ==
    IF sjs = <<>> THEN acc
    ELSE LET sj == Head(sjs)
             named == IF sj.precompute_set # NONE THEN sj.precompute_set
                      ELSE QueryType_asignation(query_type)
             fresh == named = NONE
             set == IF fresh THEN ToString(acc.counter) ELSE named
         IN  Subrequest_joins(Tail(sjs), query_type,
                [precomputed |-> acc.precomputed \o UnwrapOrDefault(sj.precompute),
                 previous_default_set |-> IF fresh THEN set ELSE acc.previous_default_set,
                 clauses |-> Append(acc.clauses, Clause(FALSE, set, sj.clauses)),
                 counter |-> IF fresh THEN acc.counter + 1 ELSE acc.counter])

\* a precomputed clause is kept among the clauses as well
RECURSIVE Subrequest_filter_keeps(_, _, _, _)
Subrequest_filter_keeps(cls, pre, d, acc) ==
    IF cls = <<>> THEN acc
    ELSE LET c == Head(cls)
             p == precompute(d, c.set, c.sql)
         IN  IF c.is_out \/ ~Contains(pre, c.set) \/ ~IsSome(p)
             THEN Subrequest_filter_keeps(Tail(cls), pre, d,
                                          [acc EXCEPT !.clauses = Append(@, c)])
             ELSE Subrequest_filter_keeps(Tail(cls), pre, d,
                                          [acc EXCEPT !.clauses = Append(@, c),
                                                      !.precomputed_sql = @ \o Unwrap(p)])

\* the filter closure of lines 163-179: the clauses kept, and the statements
RECURSIVE Subrequest_filter(_, _, _, _)
Subrequest_filter(cls, pre, d, acc) ==
    IF cls = <<>> THEN acc
    ELSE LET c == Head(cls)
             p == precompute(d, c.set, c.sql)
         IN  IF c.is_out \/ ~Contains(pre, c.set)
             THEN Subrequest_filter(Tail(cls), pre, d,
                                    [acc EXCEPT !.clauses = Append(@, c)])
             ELSE IF IsSome(p)
                  THEN Subrequest_filter(Tail(cls), pre, d,
                                         [acc EXCEPT !.precomputed_sql = @ \o Unwrap(p)])
                  ELSE Subrequest_filter(Tail(cls), pre, d,
                                         [acc EXCEPT !.clauses = Append(@, c)])

Subrequest_with_join(cls) ==
    Join([k \in 1..Len(cls) |-> Binding(cls[k].set, cls[k].sql)], <<",">>)

\* a branch for every clause, the queries included
Subrequest_select_every_clause(cls) ==
    Join([k \in 1..Len(cls) |-> <<"SELECT", "*", "FROM", "_" \o cls[k].set>>],
         <<"UNION", "ALL">>)

Subrequest_select(cls) ==
    LET outs == SelectSeq(cls, LAMBDA c : c.is_out) IN
    Join([k \in 1..Len(outs) |-> <<"SELECT", "*", "FROM", "_" \o outs[k].set>>],
         <<"UNION", "ALL">>)

Subrequest_combined(cls) ==
    <<"WITH">> \o Subrequest_with_join(cls) \o Subrequest_select(cls) \o <<";">>

\* str::replace("{{query}}", default_set), the template given by its tokens
Replace(template, default_set) ==
    [k \in 1..Len(template) |-> IF template[k] = "{{query}}" THEN default_set ELSE template[k]]

\* the closure of the map over the queries: (default_set, with)
RECURSIVE Request_with(_, _, _, _)
Request_with(queries, d, s, acc) ==
    IF queries = <<>> THEN acc
    ELSE Request_with(Tail(queries), d, s,
            Only({ [default_set |-> QueryType_asignation(Head(queries)),
                    with |-> Append(acc.with,
                               <<"_" \o QueryType_asignation(Head(queries)), "AS", "(">>
                               \o sjs[Len(sjs)].clauses \o <<")">>)] :
                   sjs \in {QueryType_to_sql(Head(queries), d, s, acc.default_set, 0).sjs} }))

\* Request::to_sql(sql_dialect, srid, finalizer) of request.rs: one text
Request_to_sql(queries, out, timeout, d, s, finalizer) ==
    Only({ UnwrapOrDefault(statement_timeout(d, Request_timeout_ms(timeout)))
           \o <<"WITH">>
           \o Join(IF IsSome(finalizer)
                   THEN Append(acc.with, <<"__finalizer", "AS", "(">>
                                         \o Replace(Unwrap(finalizer), acc.default_set)
                                         \o <<")">>)
                   ELSE acc.with, <<",">>)
           \o <<"SELECT">>
           \o Out_projection(IF IsSome(out) THEN Unwrap(out) ELSE Out_default, d, s)
           \o <<"FROM", "_" \o (IF IsSome(finalizer) THEN "__finalizer" ELSE acc.default_set),
                ";">> :
           acc \in {Request_with(queries, d, s, [default_set |-> "_", with |-> <<>>])} })

\* Request::to_sql: the timeout statement, if any, then the subrequest's statements
Request_statements(d, ms, subrequest_sql) ==
    LET t == statement_timeout(d, ms) IN
    (IF IsSome(t) THEN <<Unwrap(t)>> ELSE <<>>) \o subrequest_sql

-----------------------------------------------------------------------------
(* The requests the model compiles *)

Objects(type, selectors, filters, set, asignation) ==
    [kind |-> "objects", object_type |-> type, selectors |-> selectors, filters |-> filters,
     set |-> set, asignation |-> asignation]

Union(queries, asignation) == [kind |-> "union", queries |-> queries, asignation |-> asignation]

Recurse(asignation) == [kind |-> "recurse", asignation |-> asignation]

Out(set, geom, level) ==
    [kind |-> "out", set |-> set, geom |-> geom, level_of_details |-> level]

IdsFilter(ids) == [NoFilter EXCEPT !.ids = Some(ids)]

AreaFilter(id) == [NoFilter EXCEPT !.area_id = id]

PolyFilter(poly) == [NoFilter EXCEPT !.poly = Some(poly)]

Poly1 == << <<1, 2>>, <<3, 4>>, <<5, 6>> >>

\* node;  node(id:1)->.a;  way._;  nwr(area.a)->.b;  node(poly:"1 2 3 4 5 6");  >;
\* (node->.a; way;);
QueryPool ==
    { Objects("node", <<>>, None, NONE, NONE),
      Objects("node", <<>>, Some(<<IdsFilter(<<1>>)>>), NONE, "a"),
      Objects("way", <<>>, None, "_", NONE),
      Objects("nwr", <<>>, Some(<<AreaFilter("a")>>), NONE, "b"),
      Objects("node", <<>>, Some(<<PolyFilter(Poly1)>>), NONE, NONE),
      Recurse(NONE),
      Union(<<Objects("node", <<>>, None, NONE, "a"), Objects("way", <<>>, None, NONE, NONE)>>,
            NONE) }

\* out;  .a out;  .b out ids center;
OutPool == { Out(NONE, "geom", "body"), Out("a", "geom", "body"), Out("b", "center", "ids") }

ItemPool == QueryPool \cup OutPool

SeqsUpTo(S, n) == UNION {[1..k -> S] : k \in 1..n}

NoMetadata == [present |-> FALSE, number |-> None]

Metadata(number) == [present |-> TRUE, number |-> number]

\* every geometry mode and detail level of an Out, after one query
AllOuts == {Out(set, g, l) : set \in {NONE, "a"}, g \in OutGeoms, l \in OutLevels}

OutInputs ==
    {[meta |-> NoMetadata,
      items |-> <<Objects("node", <<>>, Some(<<IdsFilter(<<1>>)>>), NONE, asg), o>>] :
        asg \in {NONE, "a"}, o \in AllOuts}

\* no metadata, "[out:json]", and "[timeout:N]" for N around the cap and around 2^32
TimeoutMetas ==
    {NoMetadata, Metadata(None)}
    \cup {Metadata(Some(<<hi, lo>>)) : hi \in {0}, lo \in 0..MaxTimeout}
    \cup {Metadata(Some(<<hi, lo>>)) : hi \in {1, Limb - 1, Limb}, lo \in {0, 1, 500, Limb - 1}}

TimeoutInputs ==
    {[meta |-> m, items |-> <<Objects("node", <<>>, None, NONE, NONE), Out_default>>] :
        m \in TimeoutMetas}

MainInputs ==
    {[meta |-> m, items |-> items] :
        m \in {Metadata(Some(U32(25)))}, items \in SeqsUpTo(ItemPool, MaxItems)}

\* bounds of the query specification
MaxFilters == 2

Selector(not, key, operator, value, value_regex) ==
    [not |-> not, key |-> key, operator |-> operator, value |-> value,
     value_regex |-> value_regex]

BboxFilter(bbox) == [NoFilter EXCEPT !.bbox = Some(bbox)]

AroundFilter(core, radius) == [NoFilter EXCEPT !.around = Some([core |-> core, radius |-> radius])]

\* (1,2,3,4)  (id:1)  (area.a)  (poly:"1 2 3 4 5 6")  (around.a:10)
FilterPool ==
    { BboxFilter(<<1, 2, 3, 4>>), IdsFilter(<<1>>), AreaFilter("a"), PolyFilter(Poly1),
      AroundFilter("a", 10) }

\* no selector, [k], [k=v][!k]
SelectorLists ==
    { <<>>,
      << Selector(FALSE, <<"k">>, NONE, None, None) >>,
      << Selector(FALSE, <<"k">>, "=", Some(<<"v">>), None),
         Selector(TRUE, <<"k">>, NONE, None, None) >> }

ObjectTypes == {"node", "way", "relation", "nwr", "area"}

\* node(id:1)->.a; <type><selectors><filters>;   and the same reading .a
\* node(id:1)->.a | node->.a ;  way.a->.b | way(area.a)->.b | way(poly:"1 2 3 4 5 6")->.b
\* | way->.b ;  nwr(area.b) | nwr(area.a) | nwr(area.a)(area.b) | nwr(around.b:10) | nwr
PrecomputeInputs ==
    {[meta |-> NoMetadata,
      items |-> << Objects("node", <<>>, f1, NONE, "a"),
                   Objects("way", <<>>, f2, set2, "b"),
                   Objects("nwr", <<>>, f3, NONE, NONE) >>] :
        f1 \in {None, Some(<<IdsFilter(<<1>>)>>)},
        f2 \in {None, Some(<<AreaFilter("a")>>), Some(<<PolyFilter(Poly1)>>)},
        set2 \in {NONE, "a"},
        f3 \in {None, Some(<<AreaFilter("b")>>), Some(<<AreaFilter("a")>>),
                Some(<<AreaFilter("a"), AreaFilter("b")>>), Some(<<AroundFilter("b", 10)>>)}}

Poly2 == << <<1, 2>>, <<3, 4>>, <<7, 8>> >>

\* node(id:1)->.a; <type><filters>;  filters of (poly:"1 2 3 4 5 6"), (poly:"1 2 3 4 7 8")
\* and (1,2,3,4)
PolyInputs ==
    {[meta |-> NoMetadata,
      items |-> << Objects("node", <<>>, Some(<<IdsFilter(<<1>>)>>), NONE, "a"),
                   Objects(t, <<>>, Some(fs), NONE, NONE) >>] :
        t \in {"node", "nwr"},
        fs \in SeqsUpTo({PolyFilter(Poly1), PolyFilter(Poly2), BboxFilter(<<1, 2, 3, 4>>)},
                        MaxFilters)}

ObjectsInputs ==
    {[meta |-> NoMetadata,
      items |-> << Objects("node", <<>>, Some(<<IdsFilter(<<1>>)>>), NONE, "a"),
                   Objects(t, sel, f, set, NONE) >>] :
        t \in ObjectTypes, sel \in SelectorLists,
        f \in {None} \cup {Some(fs) : fs \in SeqsUpTo(FilterPool, MaxFilters)},
        set \in {NONE, "a"}}

-----------------------------------------------------------------------------
(* The parse tree and the builders (from_pest).  A Pair is a record           *)
(* [rule, span, text, inner]: text is the matched text as a sequence of its   *)
(* pieces (characters, where a builder looks inside the text), span           *)
(* identifies the place of the pair in the input.                             *)

Pair(rule, span, text, inner) == [rule |-> rule, span |-> span, text |-> text, inner |-> inner]

\* Result<T, pest::error::Error<Rule>>, and a panic
Ok(v) == [kind |-> "ok", value |-> v, span |-> 0, by |-> NONE]

Err(by, pair) == [kind |-> "err", value |-> <<>>, span |-> pair.span, by |-> by]

Panic(by) == [kind |-> "panic", value |-> <<>>, span |-> 0, by |-> by]

Digits == {"0", "1", "2", "3", "4", "5", "6", "7", "8", "9"}

DigitValue(c) ==
    CASE c = "0" -> 0 [] c = "1" -> 1 [] c = "2" -> 2 [] c = "3" -> 3 [] c = "4" -> 4
      [] c = "5" -> 5 [] c = "6" -> 6 [] c = "7" -> 7 [] c = "8" -> 8 [] c = "9" -> 9

RECURSIVE DecimalValue(_)
DecimalValue(ds) ==
    IF ds = <<>> THEN 0
    ELSE DecimalValue(SubSeq(ds, 1, Len(ds) - 1)) * 10 + DigitValue(ds[Len(ds)])

RECURSIVE StripZeros(_)
StripZeros(ds) == IF Len(ds) > 1 /\ Head(ds) = "0" THEN StripZeros(Tail(ds)) ELSE ds

\* i64::MAX = 9223372036854775807 and the magnitude of i64::MIN
I64MaxDigits ==
    <<"9", "2", "2", "3", "3", "7", "2", "0", "3", "6", "8", "5", "4", "7", "7", "5", "8", "0", "7">>

I64MinDigits ==
    <<"9", "2", "2", "3", "3", "7", "2", "0", "3", "6", "8", "5", "4", "7", "7", "5", "8", "0", "8">>

\* ds <= limit for digit strings of the same length
RECURSIVE DigitsLeq(_, _)
DigitsLeq(ds, limit) ==
    IF ds = <<>> THEN TRUE
    ELSE IF DigitValue(Head(ds)) < DigitValue(Head(limit)) THEN TRUE
    ELSE IF DigitValue(Head(ds)) > DigitValue(Head(limit)) THEN FALSE
    ELSE DigitsLeq(Tail(ds), Tail(limit))

Signed(cs) == cs # <<>> /\ Head(cs) \in {"-", "+"}

Magnitude(cs) == IF Signed(cs) THEN Tail(cs) ELSE cs

IsNumber(cs) == Magnitude(cs) # <<>> /\ \A k \in 1..Len(Magnitude(cs)) : Magnitude(cs)[k] \in Digits

FitsI64(cs) ==
    LET ds == StripZeros(Magnitude(cs))
        limit == IF Signed(cs) /\ Head(cs) = "-" THEN I64MinDigits ELSE I64MaxDigits
    IN  Len(ds) < Len(limit) \/ (Len(ds) = Len(limit) /\ DigitsLeq(ds, limit))

NumberValue(cs) ==
    IF Signed(cs) /\ Head(cs) = "-" THEN 0 - DecimalValue(Magnitude(cs))
    ELSE DecimalValue(Magnitude(cs))

\* str::parse::<i64>().ok()
ParseI64(cs) == IF IsNumber(cs) /\ FitsI64(cs) THEN Some(NumberValue(cs)) ELSE None

\* str::parse::<f64>().ok(), on the texts made of a sign and digits
ParseF64(cs) == IF IsNumber(cs) THEN Some(NumberValue(cs)) ELSE None

\* str::split(sep): the pieces between the occurrences of the separator
Split(cs, sep) ==
    LET seps == {k \in 1..Len(cs) : cs[k] = sep}
        n == Cardinality(seps)
        pos(i) == IF i = 0 THEN 0
                  ELSE IF i = n + 1 THEN Len(cs) + 1
                  ELSE CHOOSE k \in seps : Cardinality({j \in seps : j < k}) = i - 1
    IN  [i \in 1..(n + 1) |-> SubSeq(cs, pos(i - 1) + 1, pos(i) - 1)]

\* Regex::new(r"\s+").split(): a run of blanks separates once
SplitBlanks(cs) ==
    LET pieces == Split(cs, " ")
        kept == {i \in 1..Len(pieces) : pieces[i] # <<>> \/ i = 1 \/ i = Len(pieces)}
        nth(i) == CHOOSE k \in kept : Cardinality({j \in kept : j < k}) = i - 1
    IN  [i \in 1..Cardinality(kept) |-> pieces[nth(i)]]

\* str::trim
RECURSIVE Trim(_)
Trim(cs) ==
    IF cs # <<>> /\ Head(cs) = " " THEN Trim(Tail(cs))
    ELSE IF cs # <<>> /\ cs[Len(cs)] = " " THEN Trim(SubSeq(cs, 1, Len(cs) - 1))
    ELSE cs

\* filter_map(|s| s.parse::<f64>().ok()): the values of the texts that parse, in order
ParseAllF64(texts) ==
    LET good == SelectSeq(texts, LAMBDA t : IsSome(ParseF64(t))) IN
    [k \in 1..Len(good) |-> Unwrap(ParseF64(good[k]))]

\* filter_map(|s| s.parse::<i64>().ok())
ParseAllI64(texts) ==
    LET good == SelectSeq(texts, LAMBDA t : IsSome(ParseI64(t))) IN
    [k \in 1..Len(good) |-> Unwrap(ParseI64(good[k]))]

\* find(|p| p.as_rule() == Rule::ID).map(|p| p.as_str())
FindID(inner) ==
    LET ids == SelectSeq(inner, LAMBDA p : p.rule = "ID") IN
    IF ids = <<>> THEN None ELSE Some(Concat(ids[1].text))

\* chunks(2) of the poly numbers
PolyChunks(nums) ==
    [k \in 1..(Len(nums) \div 2) |-> <<nums[2 * k - 1], nums[2 * k]>>]

\* the filter_around arm: the loop over the children of the pair
RECURSIVE FilterAround_from_pest(_, _)
FilterAround_from_pest(inner, around) ==
    IF inner = <<>> THEN Ok(around)
    ELSE LET p == Head(inner) IN
         IF p.rule = "filter_around_core"
         THEN (IF IsSome(FindID(p.inner))
               THEN FilterAround_from_pest(Tail(inner),
                        [around EXCEPT !.core = Unwrap(FindID(p.inner))])
               ELSE Panic("FilterAround"))
         ELSE IF p.rule = "filter_around_radius"
         THEN FilterAround_from_pest(Tail(inner),
                  IF IsSome(ParseF64(p.text))
                  THEN [around EXCEPT !.radius = Unwrap(ParseF64(p.text))]
                  ELSE around)
         ELSE Err("FilterAround", p)

\* Filter::from_pest
Filter_from_pest(pair) ==
    CASE pair.rule = "filter_bbox" ->
            LET pieces == Split(pair.text, ",")
                coords == ParseAllF64([k \in 1..Len(pieces) |-> Trim(pieces[k])])
            IN
            Ok(IF Len(coords) = 4 THEN [NoFilter EXCEPT !.bbox = Some(coords)] ELSE NoFilter)
      [] pair.rule = "filter_poly" ->
            LET a == pair.inner[1].text
                tokens == SplitBlanks(SubSeq(a, 2, Len(a) - 1))
            IN
            IF Len(a) < 2 THEN Panic("Filter")
            ELSE IF \E k \in 1..Len(tokens) : ~IsSome(ParseF64(tokens[k])) THEN Panic("Filter")
            ELSE IF Len(tokens) % 2 = 1 THEN Panic("Filter")
            ELSE Ok([NoFilter EXCEPT
                        !.poly = Some(PolyChunks(ParseAllF64(tokens)))])
      [] pair.rule = "filter_osm_id" ->
            Ok(IF IsSome(ParseI64(pair.text))
               THEN [NoFilter EXCEPT !.ids = Some(<<Unwrap(ParseI64(pair.text))>>)]
               ELSE NoFilter)
      [] pair.rule = "filter_osm_ids" ->
            Ok([NoFilter EXCEPT
                  !.ids = Some(ParseAllI64([k \in 1..Len(pair.inner) |-> pair.inner[k].text]))])
      [] pair.rule = "filter_area" ->
            Ok([NoFilter EXCEPT
                  !.area_id = IF IsSome(FindID(pair.inner)) THEN Unwrap(FindID(pair.inner))
                              ELSE NONE])
      [] pair.rule = "filter_around" ->
            Only({ IF r.kind = "ok" THEN Ok([NoFilter EXCEPT !.around = Some(r.value)]) ELSE r :
                     r \in {FilterAround_from_pest(pair.inner, [core |-> "", radius |-> 0])} })
      [] OTHER -> Err("Filter", pair)

\* Filters::from_pest: every child through Filter::from_pest, the first failure returned
RECURSIVE Filters_from_pest_loop(_, _)
Filters_from_pest_loop(inner, filters) ==
    IF inner = <<>> THEN Ok(filters)
    ELSE Only({ IF r.kind = "ok"
                  THEN Filters_from_pest_loop(Tail(inner), Append(filters, r.value))
                  ELSE r :
                r \in {Filter_from_pest(Head(inner))} })

Filters_from_pest(pair) == Filters_from_pest_loop(pair.inner, <<>>)

\* Selector::unquote; a lone quote character makes the slice value[1..0]
Unquote_panics(cs) == Len(cs) = 1 /\ cs[1] \in {"\"", "'"}

Unquote(cs) ==
    IF Len(cs) >= 2 /\ cs[1] = cs[Len(cs)] /\ cs[1] \in {"\"", "'"}
    THEN SubSeq(cs, 2, Len(cs) - 1)
    ELSE cs

\* Regex::new(value).is_ok(), on patterns of literals and groups: the groups are balanced
RegexDepth(cs, k) ==
    Cardinality({j \in 1..k : cs[j] = "("}) - Cardinality({j \in 1..k : cs[j] = ")"})

RegexValid(cs) == RegexDepth(cs, Len(cs)) = 0 /\ \A k \in 1..Len(cs) : RegexDepth(cs, k) >= 0

DefaultSelector == [not |-> FALSE, key |-> <<>>, operator |-> NONE, value |-> None, value_regex |-> None]

\* Selector::from_pest: the loop over the children
RECURSIVE Selector_from_pest_loop(_, _)
Selector_from_pest_loop(inner, selector) ==
    IF inner = <<>> THEN Ok(selector)
    ELSE LET p == Head(inner) IN
         CASE p.rule = "not" ->
                Selector_from_pest_loop(Tail(inner), [selector EXCEPT !.not = (Concat(p.text) = "!")])
           [] p.rule = "key" ->
                IF Unquote_panics(p.text) THEN Panic("Selector")
                ELSE Selector_from_pest_loop(Tail(inner), [selector EXCEPT !.key = Unquote(p.text)])
           [] p.rule = "operator" ->
                Selector_from_pest_loop(Tail(inner), [selector EXCEPT !.operator = Concat(p.text)])
           [] p.rule = "value" ->
                IF Unquote_panics(p.text) \/ selector.operator = NONE THEN Panic("Selector")
                ELSE IF selector.operator \in {"~", "!~"}
                THEN Selector_from_pest_loop(Tail(inner),
                        [selector EXCEPT !.value_regex = IF RegexValid(Unquote(p.text))
                                                         THEN Some(Unquote(p.text)) ELSE None])
                ELSE Selector_from_pest_loop(Tail(inner),
                        [selector EXCEPT !.value = Some(Unquote(p.text))])
           [] OTHER -> Err("Selector", p)

Selector_from_pest(pair) == Selector_from_pest_loop(pair.inner, DefaultSelector)

\* the asignation arm of the query builders: find(ID).map(as_str).unwrap()
Asignation_panics(p) == ~IsSome(FindID(p.inner))

\* QueryObjects::from_pest
RECURSIVE QueryObjects_from_pest_loop(_, _)
QueryObjects_from_pest_loop(inner, q) ==
    IF inner = <<>> THEN Ok(q)
    ELSE LET p == Head(inner) IN
         CASE p.rule = "object_type" ->
                QueryObjects_from_pest_loop(Tail(inner), [q EXCEPT !.object_type = Concat(p.text)])
           [] p.rule = "selector" ->
                Only({ IF r.kind = "ok"
                         THEN QueryObjects_from_pest_loop(Tail(inner),
                                  [q EXCEPT !.selectors = Append(@, r.value)])
                         ELSE r :
                       r \in {Selector_from_pest(p)} })
           [] p.rule = "filters" ->
                Only({ IF r.kind = "ok"
                         THEN QueryObjects_from_pest_loop(Tail(inner),
                                  [q EXCEPT !.filters = Some(r.value)])
                         ELSE r :
                       r \in {Filters_from_pest(p)} })
           [] p.rule = "ID" ->
                QueryObjects_from_pest_loop(Tail(inner), [q EXCEPT !.set = Concat(p.text)])
           [] p.rule = "asignation" ->
                IF Asignation_panics(p) THEN Panic("QueryObjects")
                ELSE QueryObjects_from_pest_loop(Tail(inner),
                         [q EXCEPT !.asignation = Unwrap(FindID(p.inner))])
           [] OTHER -> Err("QueryObjects", p)

QueryObjects_from_pest(pair) ==
    IF pair.rule = "query_object"
    THEN QueryObjects_from_pest_loop(pair.inner, Objects("", <<>>, None, NONE, NONE))
    ELSE Err("QueryObjects", pair)

\* QueryRecurse::from_pest
RECURSIVE QueryRecurse_from_pest_loop(_, _)
QueryRecurse_from_pest_loop(inner, q) ==
    IF inner = <<>> THEN Ok(q)
    ELSE LET p == Head(inner) IN
         CASE p.rule = "query_recurse" -> QueryRecurse_from_pest_loop(Tail(inner), q)
           [] p.rule = "asignation" ->
                IF Asignation_panics(p) THEN Panic("QueryRecurse")
                ELSE QueryRecurse_from_pest_loop(Tail(inner),
                         [q EXCEPT !.asignation = Unwrap(FindID(p.inner))])
           [] OTHER -> Err("QueryRecurse", p)

QueryRecurse_from_pest(pair) == QueryRecurse_from_pest_loop(pair.inner, Recurse(NONE))

RECURSIVE QueryType_from_pest(_)

\* the loop over a query_sequence: the queries built after those given, or the first failure
QueryType_sequence(inner, queries) ==
    Only({ IF \A k \in 1..Len(inner) : rs[k].kind = "ok"
             THEN Ok(queries \o [k \in 1..Len(inner) |-> rs[k].value])
             ELSE rs[CHOOSE k \in 1..Len(inner) :
                        rs[k].kind # "ok" /\ \A j \in 1..(k - 1) : rs[j].kind = "ok"] :
           rs \in {[k \in 1..Len(inner) |-> QueryType_from_pest(inner[k])]} })

RECURSIVE QueryUnion_from_pest_loop(_, _)

\* QueryUnion::from_pest: an unexpected rule panics
QueryUnion_from_pest_loop(inner, q) ==
    IF inner = <<>> THEN Ok(q)
    ELSE LET p == Head(inner) IN
         CASE p.rule = "query_sequence" ->
                Only({ IF r.kind = "ok"
                         THEN QueryUnion_from_pest_loop(Tail(inner), [q EXCEPT !.queries = r.value])
                         ELSE r :
                       r \in {QueryType_sequence(p.inner, q.queries)} })
           [] p.rule = "asignation" ->
                IF Asignation_panics(p) THEN Panic("QueryUnion")
                ELSE QueryUnion_from_pest_loop(Tail(inner),
                         [q EXCEPT !.asignation = Unwrap(FindID(p.inner))])
           [] OTHER -> Panic("QueryUnion")

QueryUnion_from_pest(pair) == QueryUnion_from_pest_loop(pair.inner, Union(<<>>, NONE))

\* QueryType::from_pest
QueryType_from_pest(pair) ==
    CASE pair.rule = "query_object" -> QueryObjects_from_pest(pair)
      [] pair.rule = "query_union" -> QueryUnion_from_pest(pair)
      [] pair.rule = "query_recurse" -> QueryRecurse_from_pest(pair)
      [] OTHER -> Err("QueryType", pair)

\* Out::from_pest
RECURSIVE Out_from_pest_loop(_, _)
Out_from_pest_loop(inner, out) ==
    IF inner = <<>> THEN Ok(out)
    ELSE LET p == Head(inner) IN
         CASE p.rule = "ID" -> Out_from_pest_loop(Tail(inner), [out EXCEPT !.set = Concat(p.text)])
           [] p.rule = "out_geom" -> Out_from_pest_loop(Tail(inner), [out EXCEPT !.geom = Concat(p.text)])
           [] p.rule = "out_level_of_details" ->
                Out_from_pest_loop(Tail(inner), [out EXCEPT !.level_of_details = Concat(p.text)])
           [] OTHER -> Err("Out", p)

Out_from_pest(pair) == Out_from_pest_loop(pair.inner, Out(NONE, "geom", "body"))

\* Subrequest::from_pest: the queries of the subrequest
RECURSIVE Subrequest_from_pest_loop(_, _)
Subrequest_from_pest_loop(inner, queries) ==
    IF inner = <<>> THEN Ok(queries)
    ELSE LET p == Head(inner) IN
         CASE p.rule = "query_sequence" ->
                Only({ IF r.kind = "ok" THEN Subrequest_from_pest_loop(Tail(inner), r.value)
                         ELSE r :
                       r \in {QueryType_sequence(p.inner, queries)} })
           [] p.rule = "out" ->
                Only({ IF r.kind = "ok"
                         THEN Subrequest_from_pest_loop(Tail(inner), Append(queries, r.value))
                         ELSE r :
                       r \in {Out_from_pest(p)} })
           [] OTHER -> Err("Subrequest", p)

Subrequest_from_pest(pair) == Subrequest_from_pest_loop(pair.inner, <<>>)

\* the digits as a u32 in limbs; the high limb saturates at 2^16 when the number does not fit
RECURSIVE DecimalLimbs(_)
DecimalLimbs(ds) ==
    IF ds = <<>> THEN <<0, 0>>
    ELSE LET t == DecimalLimbs(SubSeq(ds, 1, Len(ds) - 1))
             low == t[2] * 10 + DigitValue(ds[Len(ds)])
             high == t[1] * 10 + (low \div Limb)
         IN  <<IF high >= Limb THEN Limb ELSE high, low % Limb>>

\* the Rule::metadata arm: find(number).map(|p| p.as_str().parse::<u32>().ok().unwrap())
MetadataOf(p) ==
    LET numbers == SelectSeq(p.inner, LAMBDA c : c.rule = "number") IN
    IF numbers = <<>> THEN Metadata(None)
    ELSE LET cs == numbers[1].text IN
         IF IsNumber(cs) /\ ~(Signed(cs) /\ Head(cs) = "-")
         THEN Metadata(Some(DecimalLimbs(Magnitude(cs))))
         ELSE Metadata(Some(<<Limb, 0>>))

\* Request::from_pest: the loop over the children; a child of another rule is passed over
RECURSIVE Request_from_pest_loop(_, _)
Request_from_pest_loop(inner, req) ==
    IF inner = <<>> THEN Ok(req)
    ELSE LET p == Head(inner) IN
         CASE p.rule = "metadata" ->
                IF Request_from_pest_panics(MetadataOf(p)) THEN Panic("Request")
                ELSE Request_from_pest_loop(Tail(inner),
                         [req EXCEPT !.timeout = Request_timeout(MetadataOf(p))])
           [] p.rule = "subrequest" ->
                Only({ IF r.kind = "ok"
                         THEN Request_from_pest_loop(Tail(inner), [req EXCEPT !.queries = r.value])
                         ELSE r :
                       r \in {Subrequest_from_pest(p)} })
           [] OTHER -> Request_from_pest_loop(Tail(inner), req)

Request_from_pest(pair) ==
    Request_from_pest_loop(pair.inner, [timeout |-> Request_timeout(NoMetadata), queries |-> <<>>])

-----------------------------------------------------------------------------
(* The parse trees the model builds from *)

Leaf(rule, span, text) == Pair(rule, span, text, <<>>)

\* the text of a name or a keyword, in one piece
Chars(str) == <<str>>

\* the span of the child the failure cases are about
BadSpan == 99

\* a child of a rule no builder knows
Unknown == Leaf("EOI", BadSpan, <<>>)

PAsignation(name) == Pair("asignation", 7, <<>>, <<Leaf("ID", 8, Chars(name))>>)

PObject(type, children) ==
    Pair("query_object", 3, <<>>, <<Leaf("object_type", 4, Chars(type))>> \o children)

PFilters(filters) == Pair("filters", 5, <<>>, filters)

PSelector(children) == Pair("selector", 5, <<>>, children)

PRequest(meta, items) ==
    Pair("request", 1, <<>>, meta \o <<Pair("subrequest", 2, <<>>, items)>>)

PSequence(queries) == Pair("query_sequence", 2, <<>>, queries)

\* "[timeout:N]"
PMetadata(cs) == Pair("metadata", 1, <<>>, <<Leaf("number", 1, cs)>>)

\* the texts of a number: 1, 2, -3, 4, and one that is no number
NumTexts == { <<"1">>, <<"2">>, <<"-", "3">>, <<"4">>, <<"x">> }

\* the texts of an id: in range, and i64::MAX + 1
IdTexts == { <<"1">>, <<"-", "2">>, Append(SubSeq(I64MaxDigits, 1, 18), "8"), <<"x">> }

\* node(s,w,n,e);
BboxTrees ==
    { PRequest(<<>>, <<PSequence(<<PObject("node", <<PFilters(<<Leaf("filter_bbox", 6,
            Join(cs, <<",", " ">>))>>)>>)>>)>>) :
        cs \in [1..4 -> NumTexts] }

\* node(N);  node(id:1,N);
IdTrees ==
    { PRequest(<<>>, <<PSequence(<<PObject("node", <<PFilters(<<f>>)>>)>>)>>) :
        f \in { Leaf("filter_osm_id", 6, cs) : cs \in IdTexts }
              \cup { Pair("filter_osm_ids", 6, <<>>,
                          <<Leaf("number", 6, <<"1">>), Leaf("number", 6, cs)>>) : cs \in IdTexts } }

PAround(children) == Pair("filter_around", 6, <<>>, children)

PAroundCore(name) == Pair("filter_around_core", 6, <<>>, <<Leaf("ID", 6, Chars(name))>>)

\* node(around.a:R);  node(area.a);  the set "a" bound by a first query
AroundTrees ==
    { PRequest(<<>>, <<PSequence(<<PObject("node", <<PAsignation("a")>>),
                                   PObject("way", <<PFilters(<<f>>)>>)>>)>>) :
        f \in { PAround(<<PAroundCore("a"), Leaf("filter_around_radius", 6, cs)>>) :
                  cs \in {<<"1", "0">>, <<"x">>} }
              \cup { Pair("filter_area", 6, <<>>, <<Leaf("ID", 6, Chars("a"))>>) } }

\* node(poly:"...");
PolyTrees ==
    { PRequest(<<>>, <<PSequence(<<PObject("node",
            <<PFilters(<<Pair("filter_poly", 6, <<>>, <<Leaf("string", 6, tokens)>>)>>)>>)>>)>>) :
        tokens \in { <<"\"", "1", " ", "2", " ", "-", "3", " ", "4", " ", "1", " ", "4", "\"">>,
                     <<"\"", "1", " ", "2", " ", "-", "3", " ", "4", " ", "1", "\"">>,
                     <<"\"", "1", " ", "2", " ", "-", "3", " ", "4", " ", "1", " ", "x", "\"">>,
                     <<"\"", " ", "1", " ", " ", "2", " ", "-", "3", " ", "4", " ", "1", " ", "4", "\"">>,
                     <<"\"", "1", " ", " ", "2", " ", "-", "3", " ", "4", " ", "1", " ", "4", "\"">> } }

\* [k]  [!"k"]  [k=v]  [k!='v']  [k~v]  [k!~(v)]  [k~(v]  [k'="it's"]  [k=]  [k=v][!j]
\* [k~"it's"]
SelectorForms ==
    { << <<Leaf("key", 6, <<"k">>)>> >>,
      << <<Leaf("not", 6, Chars("!")), Leaf("key", 6, <<"\"", "k", "\"">>)>> >>,
      << <<Leaf("key", 6, <<"k">>), Leaf("operator", 6, Chars("=")), Leaf("value", 6, <<"v">>)>> >>,
      << <<Leaf("key", 6, <<"k">>), Leaf("operator", 6, Chars("!=")),
           Leaf("value", 6, <<"'", "v", "'">>)>> >>,
      << <<Leaf("key", 6, <<"k">>), Leaf("operator", 6, Chars("~")), Leaf("value", 6, <<"v">>)>> >>,
      << <<Leaf("key", 6, <<"k">>), Leaf("operator", 6, Chars("!~")),
           Leaf("value", 6, <<"(", "v", ")">>)>> >>,
      << <<Leaf("key", 6, <<"k">>), Leaf("operator", 6, Chars("~")),
           Leaf("value", 6, <<"(", "v">>)>> >>,
      << <<Leaf("key", 6, <<"k", "'">>), Leaf("operator", 6, Chars("=")),
           Leaf("value", 6, <<"\"", "i", "t", "'", "s", "\"">>)>> >>,
      << <<Leaf("key", 6, <<"k">>), Leaf("operator", 6, Chars("=")), Leaf("value", 6, <<>>)>> >>,
      << <<Leaf("key", 6, <<"k">>), Leaf("operator", 6, Chars("~")),
           Leaf("value", 6, <<"\"", "i", "t", "'", "s", "\"">>)>> >>,
      << <<Leaf("key", 6, <<"k">>), Leaf("operator", 6, Chars("=")), Leaf("value", 6, <<"v">>)>>,
         <<Leaf("not", 6, Chars("!")), Leaf("key", 6, <<"j">>)>> >> }

SelectorTrees ==
    { PRequest(<<>>, <<PSequence(<<PObject(t,
                          [k \in 1..Len(form) |-> PSelector(form[k])])>>)>>) :
        t \in {"node", "nwr"}, form \in SelectorForms }

POut(children) == Pair("out", 9, <<>>, children)

\* [timeout:N] node->.a; .a out center meta;   (node; >->.b;); out;
GeneralTrees ==
    { PRequest(<<PMetadata(cs)>>,
               <<PSequence(<<PObject("node", <<PAsignation("a")>>)>>),
                 POut(<<Leaf("ID", 9, Chars("a")), Leaf("out_geom", 9, Chars("center")),
                        Leaf("out_level_of_details", 9, Chars("meta"))>>)>>) :
        cs \in { <<"2", "5">>, <<"4", "2", "9", "4", "9", "6", "7", "2", "9", "5">>,
                 <<"4", "2", "9", "4", "9", "6", "7", "2", "9", "6">> } }
    \cup
    { PRequest(<<>>,
               <<PSequence(<<Pair("query_union", 3, <<>>,
                                  <<PSequence(<<PObject("node", <<>>),
                                                Pair("query_recurse", 4, <<>>,
                                                     <<Leaf("query_recurse", 4, Chars(">")),
                                                       PAsignation("b")>>)>>)>>)>>),
                 POut(<<>>)>>) }

\* one child of an unknown rule under each builder
UnknownTrees ==
    { Pair("request", 1, <<>>, <<Unknown, Pair("subrequest", 2, <<>>, <<POut(<<>>)>>)>>),
      PRequest(<<>>, <<Unknown>>),
      PRequest(<<>>, <<PSequence(<<Unknown>>)>>),
      PRequest(<<>>, <<PSequence(<<PObject("node", <<Unknown>>)>>)>>),
      PRequest(<<>>, <<PSequence(<<Pair("query_union", 3, <<>>, <<Unknown>>)>>)>>),
      PRequest(<<>>, <<PSequence(<<Pair("query_recurse", 3, <<>>, <<Unknown>>)>>)>>),
      PRequest(<<>>, <<PSequence(<<PObject("node", <<PFilters(<<Unknown>>)>>)>>)>>),
      PRequest(<<>>, <<PSequence(<<PObject("node",
                          <<PFilters(<<PAround(<<PAroundCore("a"), Unknown>>)>>)>>)>>)>>),
      PRequest(<<>>, <<PSequence(<<PObject("node", <<PSelector(<<Unknown>>)>>)>>)>>),
      PRequest(<<>>, <<POut(<<Unknown>>)>>) }

\* node; out G L;  with each word given or left out
OutTrees ==
    { PRequest(<<>>, <<PSequence(<<PObject("node", <<>>)>>), POut(g \o l)>>) :
        g \in {<<>>} \cup { <<Leaf("out_geom", 9, Chars(w))>> : w \in OutGeoms },
        l \in {<<>>} \cup { <<Leaf("out_level_of_details", 9, Chars(w))>> : w \in OutLevels } }

MaxQueries == 2

\* node(id:1)->.a;  way.a->.b;  >->.c;  (node->.a; way->.b;)->.u;
BoundQueryPool ==
    { Objects("node", <<>>, Some(<<IdsFilter(<<1>>)>>), NONE, "a"),
      Objects("way", <<>>, None, "a", "b"),
      Recurse("c"),
      Union(<<Objects("node", <<>>, None, NONE, "a"), Objects("way", <<>>, None, NONE, "b")>>,
            "u") }

\* SELECT * FROM {{query}}   SELECT * FROM {{query}} JOIN {{query}} AS t ON true   SELECT 1
FinalizerPool ==
    { <<"SELECT", "*", "FROM", "{{query}}">>,
      <<"SELECT", "*", "FROM", "{{query}}", "JOIN", "{{query}}", "AS", "t", "ON", "true">>,
      <<"SELECT", "1">> }

\* explicitly bound queries, an optional out, an optional finalizer template
FinalizerInputs ==
    {[meta |-> NoMetadata, items |-> qs \o o, finalizer |-> f] :
        qs \in SeqsUpTo(BoundQueryPool, MaxQueries),
        o \in {<<>>, <<Out(NONE, "geom", "body")>>, <<Out(NONE, "center", "ids")>>},
        f \in {None} \cup {Some(t) : t \in FinalizerPool}}

\* the second call starts from any value of the two counters up to this one
MaxCounter == 2

\* node;  node(id:1)->.a;  >;  (node->.a; way;);  (node->.a; way->.b;)->.u;  (node;)->.v;
\* node(poly:"1 2 3 4 5 6")->.p;  out;
AgainPool ==
    { Objects("node", <<>>, None, NONE, NONE),
      Objects("node", <<>>, Some(<<IdsFilter(<<1>>)>>), NONE, "a"),
      Recurse(NONE),
      Union(<<Objects("node", <<>>, None, NONE, "a"), Objects("way", <<>>, None, NONE, NONE)>>,
            NONE),
      Union(<<Objects("node", <<>>, None, NONE, "a"), Objects("way", <<>>, None, NONE, "b")>>,
            "u"),
      Union(<<Objects("node", <<>>, None, NONE, NONE)>>, "v"),
      Objects("node", <<>>, Some(<<PolyFilter(Poly1)>>), NONE, "p"),
      Out(NONE, "geom", "body") }

AgainInputs ==
    {[meta |-> NoMetadata, items |-> items] : items \in SeqsUpTo(AgainPool, MaxQueries)}

\* the compilations that share the statics
Threads == {1, 2}

\* node;  way._;  (node; way;)->.u;  (node; way._;);
ConcurrentPool ==
    { Objects("node", <<>>, None, NONE, NONE),
      Objects("way", <<>>, None, "_", NONE),
      Union(<<Objects("node", <<>>, None, NONE, NONE), Objects("way", <<>>, None, NONE, NONE)>>,
            "u"),
      Union(<<Objects("node", <<>>, None, NONE, NONE), Objects("way", <<>>, None, "_", NONE)>>,
            NONE) }

\* one request for each compilation
ConcurrentInputs ==
    {[requests |-> rs] : rs \in {f \in [Threads -> SeqsUpTo(ConcurrentPool, MaxQueries)] :
                                    \A t \in Threads \ {1} : Len(f[t]) = 1}}

\* node->.a;  way;  node(poly:"1 2 3 4 5 6");  nwr(area.a)->.b;
UnionChildPool ==
    { Objects("node", <<>>, None, NONE, "a"),
      Objects("way", <<>>, None, NONE, NONE),
      Objects("node", <<>>, Some(<<PolyFilter(Poly1)>>), NONE, NONE),
      Objects("nwr", <<>>, Some(<<AreaFilter("a")>>), NONE, "b") }

\* ( children )  or  ( children )->.u,  then  out;
UnionInputs ==
    {[meta |-> NoMetadata, items |-> <<Union(children, asg), Out_default>>] :
        children \in SeqsUpTo(UnionChildPool, MaxItems), asg \in {NONE, "u"}}

Row(type, id, nodes, members) ==
    [osm_type |-> type, id |-> id, nodes |-> nodes, members |-> members,
     geom |-> IF type = "n" THEN {id} ELSE {nodes[k] : k \in 1..Len(nodes)}]

\* the tables node and way, and the rows a set may hold
NodeRows == { Row("n", 1, <<>>, <<>>), Row("n", 2, <<>>, <<>>) }

WayRows == { Row("w", 10, <<1, 2>>, <<>>), Row("w", 11, <<2>>, <<>>) }

RelationRows ==
    { Row("r", 20, <<>>, <<[ref |-> 1, role |-> "", type |-> "n"],
                           [ref |-> 10, role |-> "", type |-> "w"]>>) }

\* a database and the input set of the recursion
RecurseInputs ==
    {[S |-> S, node |-> node, way |-> way] :
        S \in SUBSET (NodeRows \cup WayRows \cup RelationRows),
        node \in SUBSET NodeRows, way \in SUBSET WayRows}

\* ">", ".a >", ">->.b", ".a >->.b"
PRecurse(set, asignation) ==
    Pair("query_recurse", 4, <<>>,
         (IF set = NONE THEN <<>> ELSE <<Leaf("ID", 4, Chars(set))>>)
         \o <<Leaf("query_recurse", 4, Chars(">"))>>
         \o (IF asignation = NONE THEN <<>> ELSE <<PAsignation(asignation)>>))

\* node;  node->.a;  way->.a;   then a recursion,   then out; or nothing
RecurseTrees ==
    { PRequest(<<>>, <<PSequence(<<PObject(type, first), PRecurse(set, asignation)>>)>> \o out) :
        type \in {"node", "way", "relation"},
        first \in {<<>>, <<PAsignation("a")>>},
        set \in {NONE, "a"},
        asignation \in {NONE, "b"},
        out \in {<<>>, <<POut(<<>>)>>} }

MaxSelectors == 2

\* the keys of the tags, in the order of their bytes
TagKeys == << <<"a">>, <<"b">> >>

TagValues == { <<"x">>, <<"x", "y">>, <<"z">> }

\* [k]  [!k]  [k=x]  [k!=x]  [k~x]  [k!~x]
MatchSelectors ==
    UNION { { Selector(FALSE, key, NONE, None, None),
              Selector(TRUE, key, NONE, None, None),
              Selector(FALSE, key, "=", Some(<<"x">>), None),
              Selector(FALSE, key, "!=", Some(<<"x">>), None),
              Selector(FALSE, key, "~", None, Some(<<"x">>)),
              Selector(FALSE, key, "!~", None, Some(<<"x">>)) } : key \in Range(TagKeys) }

\* a selector list and a tag map
MatchInputs ==
    {[selectors |-> sels, tags |-> tags] :
        sels \in SeqsUpTo(MatchSelectors, MaxSelectors),
        tags \in UNION {[keys -> TagValues] : keys \in SUBSET Range(TagKeys)}}

ParseInputs ==
    BboxTrees \cup IdTrees \cup AroundTrees \cup PolyTrees \cup SelectorTrees \cup GeneralTrees
    \cup UnknownTrees \cup OutTrees

-----------------------------------------------------------------------------
(* Reading the emitted text *)

Indices(toks) == [k \in 1..Len(toks) |-> k]

\* number of parentheses open before position k
Depth(toks, k) ==
    Cardinality({j \in 1..(k - 1) : toks[j] = "("})
        - Cardinality({j \in 1..(k - 1) : toks[j] = ")"})

\* the table of the first FROM that is not inside parentheses
FirstFrom(toks) ==
    LET at == {k \in 1..(Len(toks) - 1) : toks[k] = "FROM" /\ Depth(toks, k) = 0} IN
    IF at = {} THEN NONE
    ELSE toks[(CHOOSE k \in at : \A j \in at : k <= j) + 1]

\* Selector::to_sql panics somewhere under the query
RECURSIVE QueryType_to_sql_panics(_)
QueryType_to_sql_panics(q) ==
    CASE q.kind = "objects" -> \E k \in 1..Len(q.selectors) : Selector_panics(q.selectors[k])
      [] q.kind = "union" -> \E k \in 1..Len(q.queries) : QueryType_to_sql_panics(q.queries[k])
      [] OTHER -> FALSE

-----------------------------------------------------------------------------
(* The state machine *)

InitWith(inputs, srids) ==
    /\ input \in inputs
    /\ dialect \in Dialects
    /\ srid \in srids
    /\ COUNTER = 0
    /\ UNION_COUNTER = 0
    /\ pc = "parse"
    /\ request = [timeout |-> None, subrequest |-> [queries |-> <<>>, asignation |-> NONE]]
    /\ idx = 0
    /\ previous_default_set = NONE
    /\ precomputed = <<>>
    /\ clauses = <<>>
    /\ precomputed_sql = <<>>
    /\ lowered = <<>>
    /\ timeout_arg = None
    /\ result = <<>>
    /\ entry = <<0, 0>>
    /\ emitted = <<>>
    /\ threads = <<>>

Init == InitWith(MainInputs, {"9999"})

InitOut == InitWith(OutInputs, {"4326", "9999"})

InitTimeout == InitWith(TimeoutInputs, {"9999"})

InitObjects == InitWith(ObjectsInputs, {"9999"})

InitPrecompute == InitWith(PrecomputeInputs, {"9999"})

InitPoly == InitWith(PolyInputs, {"9999"})

InitParse == InitWith(ParseInputs, {"9999"})

InitFinalizer == InitWith(FinalizerInputs, {"9999"})

InitAgain == InitWith(AgainInputs, {"9999"})

InitRecurseSet == InitWith(RecurseTrees, {"9999"})

InitUnion == InitWith(UnionInputs, {"9999"})

\* parse_query: Request::from_pest, Subrequest::default() takes a value of COUNTER
Parse ==
    /\ pc = "parse"
    /\ IF Request_from_pest_panics(input.meta)
       THEN /\ pc' = "panic"
            /\ UNCHANGED <<request, COUNTER>>
       ELSE /\ request' = [timeout |-> Request_timeout(input.meta),
                           subrequest |-> [queries |-> input.items,
                                           asignation |-> ToString(COUNTER)]]
            /\ COUNTER' = COUNTER + 1
            /\ pc' = "parsed"
    /\ UNCHANGED <<input, dialect, srid, threads, entry, emitted, UNION_COUNTER, idx, previous_default_set, precomputed,
                   clauses, precomputed_sql, lowered, timeout_arg, result>>

\* Subrequest::to_sql, lines 130-132
ToSqlBegin ==
    /\ pc = "parsed"
    /\ precomputed' = <<>>
    /\ previous_default_set' = "_"
    /\ clauses' = <<>>
    /\ idx' = 1
    /\ entry' = <<COUNTER, UNION_COUNTER>>
    /\ pc' = "lower"
    /\ UNCHANGED <<input, dialect, srid, threads, emitted, COUNTER, UNION_COUNTER, request, precomputed_sql,
                   lowered, timeout_arg, result>>

\* the map closure on a query
LowerQuery ==
    /\ pc = "lower"
    /\ idx <= Len(Items)
    /\ ~IsOut(Items[idx])
    /\ ~QueryType_to_sql_panics(Items[idx])
    /\ \E q \in {Items[idx]} :
       \E r \in {QueryType_to_sql(q, dialect, srid, previous_default_set, UNION_COUNTER)} :
       \E acc \in {Subrequest_joins(r.sjs, q,
                     [precomputed |-> precomputed, previous_default_set |-> previous_default_set,
                      clauses |-> clauses, counter |-> COUNTER])} :
           /\ UNION_COUNTER' = r.counter
           /\ precomputed' = acc.precomputed
           /\ previous_default_set' = acc.previous_default_set
           /\ clauses' = acc.clauses
           /\ COUNTER' = acc.counter
           /\ lowered' = Append(lowered,
                 [item |-> idx, is_out |-> FALSE,
                  bound |-> QueryType_asignation(q) # NONE,
                  declared |-> "_" \o acc.clauses[Len(acc.clauses)].set,
                  uses_default |-> q.kind = "recurse" \/ (q.kind = "objects" /\ q.set = "_"),
                  from |-> FirstFrom(acc.clauses[Len(acc.clauses)].sql),
                  cursor_before |-> previous_default_set,
                  cursor_after |-> acc.previous_default_set])
    /\ idx' = idx + 1
    /\ UNCHANGED <<input, dialect, srid, threads, entry, emitted, pc, request, precomputed_sql, timeout_arg, result>>

\* the map closure on an Out
LowerOut ==
    /\ pc = "lower"
    /\ idx <= Len(Items)
    /\ IsOut(Items[idx])
    /\ \E out \in {Items[idx]} :
       \E set \in {"out_" \o Out_set(out, previous_default_set)} :
       \E sql \in {Out_to_sql(out, dialect, srid, previous_default_set)} :
           /\ clauses' = Append(clauses, Clause(TRUE, set, sql))
           /\ lowered' = Append(lowered,
                 [item |-> idx, is_out |-> TRUE, bound |-> FALSE,
                  declared |-> "_" \o set,
                  uses_default |-> out.set = NONE,
                  from |-> FirstFrom(sql),
                  cursor_before |-> previous_default_set,
                  cursor_after |-> previous_default_set])
    /\ idx' = idx + 1
    /\ UNCHANGED <<input, dialect, srid, threads, entry, emitted, COUNTER, UNION_COUNTER, pc, request,
                   previous_default_set, precomputed, precomputed_sql, timeout_arg, result>>

\* lines 162-179: the precomputed sets leave the clauses
FilterPrecomputed ==
    /\ pc = "lower"
    /\ idx > Len(Items)
    /\ \E acc \in {Subrequest_filter(clauses, precomputed, dialect,
                                     [clauses |-> <<>>, precomputed_sql |-> <<>>])} :
           /\ clauses' = acc.clauses
           /\ precomputed_sql' = acc.precomputed_sql
    /\ pc' = "build"
    /\ UNCHANGED <<input, dialect, srid, threads, entry, emitted, COUNTER, UNION_COUNTER, request, idx,
                   previous_default_set, precomputed, lowered, timeout_arg, result>>

\* lines 181-194: the combined statement
BuildCombined ==
    /\ pc = "build"
    /\ precomputed_sql' = Append(precomputed_sql, Subrequest_combined(clauses))
    /\ pc' = "return"
    /\ UNCHANGED <<input, dialect, srid, threads, entry, emitted, COUNTER, UNION_COUNTER, request, idx,
                   previous_default_set, precomputed, clauses, lowered, timeout_arg, result>>

\* Request::to_sql: the timeout statement and the statements of the subrequest
RequestToSql ==
    /\ pc = "return"
    /\ \E ms \in {Request_timeout_ms(request.timeout)} :
           /\ timeout_arg' = Some(ms)
           /\ result' = Request_statements(dialect, ms, precomputed_sql)
    /\ pc' = "done"
    /\ UNCHANGED <<input, dialect, srid, threads, entry, emitted, COUNTER, UNION_COUNTER, request, idx,
                   previous_default_set, precomputed, clauses, precomputed_sql, lowered>>

\* parse_query on a parse tree: Request::from_pest
ParsePairs ==
    /\ pc = "parse"
    /\ \E r \in {Request_from_pest(input)} :
          IF r.kind = "ok"
          THEN /\ request' = [timeout |-> r.value.timeout,
                              subrequest |-> [queries |-> r.value.queries,
                                              asignation |-> ToString(COUNTER)]]
               /\ COUNTER' = COUNTER + 1
               /\ pc' = "parsed"
          ELSE /\ request' = r
               /\ pc' = IF r.kind = "err" THEN "error" ELSE "panic"
               /\ UNCHANGED COUNTER
    /\ UNCHANGED <<input, dialect, srid, threads, entry, emitted, UNION_COUNTER, idx, previous_default_set, precomputed,
                   clauses, precomputed_sql, lowered, timeout_arg, result>>

\* the map closure on a query whose emission panics
LowerPanics ==
    /\ pc = "lower"
    /\ idx <= Len(Items)
    /\ ~IsOut(Items[idx])
    /\ QueryType_to_sql_panics(Items[idx])
    /\ pc' = "panic"
    /\ UNCHANGED <<input, dialect, srid, threads, entry, emitted, COUNTER, UNION_COUNTER, request, idx,
                   previous_default_set, precomputed, clauses, precomputed_sql, lowered,
                   timeout_arg, result>>

Next ==
    \/ Parse
    \/ ToSqlBegin
    \/ LowerQuery
    \/ LowerOut
    \/ FilterPrecomputed
    \/ BuildCombined
    \/ RequestToSql

Spec == Init /\ [][Next]_vars

SpecOut == InitOut /\ [][Next]_vars

SpecUnion == InitUnion /\ [][Next]_vars

SpecTimeout == InitTimeout /\ [][Next]_vars

\* a request of queries alone: the Out arm of the map closure is never taken
NextObjects ==
    \/ Parse
    \/ ToSqlBegin
    \/ LowerQuery
    \/ FilterPrecomputed
    \/ BuildCombined
    \/ RequestToSql

SpecObjects == InitObjects /\ [][NextObjects]_vars

SpecPrecompute == InitPrecompute /\ [][NextObjects]_vars

SpecPoly == InitPoly /\ [][NextObjects]_vars

\* Request::to_sql of request.rs, with the finalizer of the input
RequestToSqlFinalizer ==
    /\ pc = "parsed"
    /\ \E outs \in {SelectSeq(Items, IsOut)} :
          result' = << Request_to_sql(SelectSeq(Items, LAMBDA i : ~IsOut(i)),
                                      IF outs = <<>> THEN None ELSE Some(outs[Len(outs)]),
                                      request.timeout, dialect, srid, input.finalizer) >>
    /\ pc' = "done"
    /\ UNCHANGED <<input, dialect, srid, threads, entry, emitted, COUNTER, UNION_COUNTER, request, idx,
                   previous_default_set, precomputed, clauses, precomputed_sql, lowered,
                   timeout_arg>>

NextFinalizer ==
    \/ Parse
    \/ RequestToSqlFinalizer

SpecFinalizer == InitFinalizer /\ [][NextFinalizer]_vars

\* a second call of Request::to_sql on the same Request: the locals of the call are new,
\* the two statics hold whatever the emissions in between have left
ToSqlAgain ==
    /\ pc = "done"
    /\ emitted = <<>>
    /\ emitted' = <<[request |-> request, result |-> result, entry |-> entry]>>
    /\ \E c \in 0..MaxCounter, u \in 0..MaxCounter :
           /\ COUNTER' = c
           /\ UNION_COUNTER' = u
    /\ idx' = 0
    /\ previous_default_set' = NONE
    /\ precomputed' = <<>>
    /\ clauses' = <<>>
    /\ precomputed_sql' = <<>>
    /\ lowered' = <<>>
    /\ timeout_arg' = None
    /\ result' = <<>>
    /\ pc' = "parsed"
    /\ UNCHANGED <<input, dialect, srid, threads, entry, request>>

NextAgain ==
    \/ Parse
    \/ ToSqlBegin
    \/ LowerQuery
    \/ LowerOut
    \/ FilterPrecomputed
    \/ BuildCombined
    \/ RequestToSql
    \/ ToSqlAgain

SpecAgain == InitAgain /\ [][NextAgain]_vars

InitConcurrent ==
    /\ input \in ConcurrentInputs
    /\ dialect = "postgres"
    /\ srid = "9999"
    /\ COUNTER = 0
    /\ UNION_COUNTER = 0
    /\ pc = "threads"
    /\ request = [timeout |-> None, subrequest |-> [queries |-> <<>>, asignation |-> NONE]]
    /\ idx = 0
    /\ previous_default_set = NONE
    /\ precomputed = <<>>
    /\ clauses = <<>>
    /\ precomputed_sql = <<>>
    /\ lowered = <<>>
    /\ timeout_arg = None
    /\ result = <<>>
    /\ entry = <<0, 0>>
    /\ emitted = <<>>
    /\ threads = [t \in Threads |->
                    [pc |-> "parse", queries |-> <<>>, asignation |-> NONE, idx |-> 0,
                     previous_default_set |-> NONE, lowered |-> <<>>,
                     child |-> 0, union |-> <<>>]]

\* what a lowering declared and read: item and child (0 for the item itself), the set name,
\* whether it came from a counter, and the table read when the query reads the default set
Lowering(item, child, set, fresh, q, sjs) ==
    [item |-> item, child |-> child, set |-> set, fresh |-> fresh,
     uses_default |-> q.kind = "recurse" \/ (q.kind = "objects" /\ q.set = "_"),
     from |-> IF q.kind = "union" THEN NONE ELSE FirstFrom(sjs[Len(sjs)].clauses)]

\* parse_query in thread t: Subrequest::default() takes a value of COUNTER
ThreadParse(t) ==
    /\ threads[t].pc = "parse"
    /\ threads' = [threads EXCEPT ![t].pc = "lower",
                                  ![t].queries = input.requests[t],
                                  ![t].asignation = ToString(COUNTER),
                                  ![t].idx = 1,
                                  ![t].previous_default_set = "_"]
    /\ COUNTER' = COUNTER + 1
    /\ UNCHANGED <<input, dialect, srid, UNION_COUNTER, pc, request, idx, previous_default_set,
                   precomputed, clauses, precomputed_sql, lowered, timeout_arg, result, entry,
                   emitted>>

\* the map closure of Subrequest::to_sql in thread t on a query that is no union
ThreadLowerQuery(t) ==
    /\ threads[t].pc = "lower"
    /\ threads[t].idx <= Len(threads[t].queries)
    /\ threads[t].queries[threads[t].idx].kind # "union"
    /\ \E th \in {threads[t]} :
       \E q \in {th.queries[th.idx]} :
       \E sjs \in {QueryType_to_sql(q, dialect, srid, th.previous_default_set, 0).sjs} :
       \E acc \in {Subrequest_joins(sjs, q,
                     [precomputed |-> <<>>, previous_default_set |-> th.previous_default_set,
                      clauses |-> <<>>, counter |-> COUNTER])} :
           /\ COUNTER' = acc.counter
           /\ threads' = [threads EXCEPT
                 ![t].previous_default_set = acc.previous_default_set,
                 ![t].lowered = Append(@, Lowering(th.idx, 0, acc.clauses[Len(acc.clauses)].set,
                                                   acc.counter # COUNTER, q, sjs)),
                 ![t].idx = @ + 1]
    /\ UNCHANGED <<input, dialect, srid, UNION_COUNTER, pc, request, idx, previous_default_set,
                   precomputed, clauses, precomputed_sql, lowered, timeout_arg, result, entry,
                   emitted>>

\* QueryUnion::to_sql in thread t is entered: its previous_default_set is the default set
ThreadUnionBegin(t) ==
    /\ threads[t].pc = "lower"
    /\ threads[t].idx <= Len(threads[t].queries)
    /\ threads[t].queries[threads[t].idx].kind = "union"
    /\ threads' = [threads EXCEPT
          ![t].pc = "union",
          ![t].child = 1,
          ![t].union = [ret |-> <<>>, precomputed |-> <<>>,
                        previous_default_set |-> threads[t].previous_default_set,
                        clauses |-> <<>>, counter |-> 0]]
    /\ UNCHANGED <<input, dialect, srid, COUNTER, UNION_COUNTER, pc, request, idx,
                   previous_default_set, precomputed, clauses, precomputed_sql, lowered,
                   timeout_arg, result, entry, emitted>>

\* the closure of QueryUnion::to_sql in thread t on one child
ThreadUnionChild(t) ==
    /\ threads[t].pc = "union"
    /\ threads[t].child <= Len(threads[t].queries[threads[t].idx].queries)
    /\ \E th \in {threads[t]} :
       \E q \in {th.queries[th.idx].queries[th.child]} :
       \E sjs \in {QueryType_to_sql(q, dialect, srid, th.union.previous_default_set, 0).sjs} :
       \E acc \in {QueryUnion_joins(sjs, q, [th.union EXCEPT !.counter = UNION_COUNTER])} :
           /\ UNION_COUNTER' = acc.counter
           /\ threads' = [threads EXCEPT
                 ![t].union = acc,
                 ![t].lowered = Append(@, Lowering(th.idx, th.child,
                                                   acc.clauses[Len(acc.clauses)][1],
                                                   acc.counter # UNION_COUNTER, q, sjs)),
                 ![t].child = @ + 1]
    /\ UNCHANGED <<input, dialect, srid, COUNTER, pc, request, idx, previous_default_set,
                   precomputed, clauses, precomputed_sql, lowered, timeout_arg, result, entry,
                   emitted>>

\* QueryUnion::to_sql in thread t returns, and the map closure names the union
ThreadUnionEnd(t) ==
    /\ threads[t].pc = "union"
    /\ threads[t].child > Len(threads[t].queries[threads[t].idx].queries)
    /\ \E th \in {threads[t]} :
       \E q \in {th.queries[th.idx]} :
       \E acc \in {Subrequest_joins(<<SubrequestJoin(NONE, Some(th.union.precomputed), None, <<>>)>>,
                     q, [precomputed |-> <<>>, previous_default_set |-> th.previous_default_set,
                         clauses |-> <<>>, counter |-> COUNTER])} :
           /\ COUNTER' = acc.counter
           /\ threads' = [threads EXCEPT
                 ![t].pc = "lower",
                 ![t].previous_default_set = acc.previous_default_set,
                 ![t].lowered = Append(@, Lowering(th.idx, 0, acc.clauses[Len(acc.clauses)].set,
                                                   acc.counter # COUNTER, q, <<>>)),
                 ![t].child = 0,
                 ![t].idx = @ + 1]
    /\ UNCHANGED <<input, dialect, srid, UNION_COUNTER, pc, request, idx, previous_default_set,
                   precomputed, clauses, precomputed_sql, lowered, timeout_arg, result, entry,
                   emitted>>

\* the map of Subrequest::to_sql in thread t is over
ThreadDone(t) ==
    /\ threads[t].pc = "lower"
    /\ threads[t].idx > Len(threads[t].queries)
    /\ threads' = [threads EXCEPT ![t].pc = "done"]
    /\ UNCHANGED <<input, dialect, srid, COUNTER, UNION_COUNTER, pc, request, idx,
                   previous_default_set, precomputed, clauses, precomputed_sql, lowered,
                   timeout_arg, result, entry, emitted>>

NextConcurrent ==
    \E t \in Threads :
        \/ ThreadParse(t)
        \/ ThreadLowerQuery(t)
        \/ ThreadUnionBegin(t)
        \/ ThreadUnionChild(t)
        \/ ThreadUnionEnd(t)
        \/ ThreadDone(t)

SpecConcurrent == InitConcurrent /\ [][NextConcurrent]_vars

InitRecurse ==
    /\ input \in RecurseInputs
    /\ dialect \in Dialects
    /\ srid = "9999"
    /\ COUNTER = 0
    /\ UNION_COUNTER = 0
    /\ pc = "recurse"
    /\ request = [timeout |-> None, subrequest |-> [queries |-> <<>>, asignation |-> NONE]]
    /\ idx = 0
    /\ previous_default_set = NONE
    /\ precomputed = <<>>
    /\ clauses = <<>>
    /\ precomputed_sql = <<>>
    /\ lowered = <<>>
    /\ timeout_arg = None
    /\ result = <<>>
    /\ entry = <<0, 0>>
    /\ emitted = <<>>
    /\ threads = <<>>

\* QueryRecurse::to_sql over the set S, and the rows its text selects
RecurseRows ==
    /\ pc = "recurse"
    /\ clauses' = <<Clause(FALSE, "S", QueryRecurse_to_sql("_S"))>>
    /\ result' = QueryRecurse_rows(input.S, input.node, input.way)
    /\ pc' = "rows"
    /\ UNCHANGED <<input, dialect, srid, threads, COUNTER, UNION_COUNTER, request, idx,
                   previous_default_set, precomputed, precomputed_sql, lowered, timeout_arg,
                   entry, emitted>>

NextRecurse ==
    \/ RecurseRows

SpecRecurse == InitRecurse /\ [][NextRecurse]_vars

\* the requests of RecurseTrees hold no selector: Selector::to_sql never panics
NextRecurseSet ==
    \/ ParsePairs
    \/ ToSqlBegin
    \/ LowerQuery
    \/ LowerOut
    \/ FilterPrecomputed
    \/ BuildCombined
    \/ RequestToSql

SpecRecurseSet == InitRecurseSet /\ [][NextRecurseSet]_vars

InitMatches ==
    /\ input \in MatchInputs
    /\ dialect \in Dialects
    /\ srid = "9999"
    /\ COUNTER = 0
    /\ UNION_COUNTER = 0
    /\ pc = "match"
    /\ request = [timeout |-> None, subrequest |-> [queries |-> <<>>, asignation |-> NONE]]
    /\ idx = 0
    /\ previous_default_set = NONE
    /\ precomputed = <<>>
    /\ clauses = <<>>
    /\ precomputed_sql = <<>>
    /\ lowered = <<>>
    /\ timeout_arg = None
    /\ result = <<>>
    /\ entry = <<0, 0>>
    /\ emitted = <<>>
    /\ threads = <<>>

\* Selectors::matches(tags)
Matches ==
    /\ pc = "match"
    /\ result' = <<Selectors_matches(input.selectors, input.tags, TagKeys)>>
    /\ pc' = "matched"
    /\ UNCHANGED <<input, dialect, srid, threads, COUNTER, UNION_COUNTER, request, idx,
                   previous_default_set, precomputed, clauses, precomputed_sql, lowered,
                   timeout_arg, entry, emitted>>

NextMatches ==
    \/ Matches

SpecMatches == InitMatches /\ [][NextMatches]_vars

NextParse ==
    \/ ParsePairs
    \/ ToSqlBegin
    \/ LowerQuery
    \/ LowerPanics
    \/ LowerOut
    \/ FilterPrecomputed
    \/ BuildCombined
    \/ RequestToSql

SpecParse == InitParse /\ [][NextParse]_vars

-----------------------------------------------------------------------------
(* Reading the statements *)

\* positions of the CTE names: NAME AS ( ... ) after WITH or a comma
IsBindingAt(toks, k) ==
    /\ k >= 2
    /\ k + 2 <= Len(toks)
    /\ toks[k - 1] \in {"WITH", ","}
    /\ toks[k + 1] = "AS"
    /\ toks[k + 2] = "("

AllBindingPositions(toks) == SelectSeq(Indices(toks), LAMBDA k : IsBindingAt(toks, k))

TopBindingPositions(toks) ==
    SelectSeq(Indices(toks), LAMBDA k : IsBindingAt(toks, k) /\ Depth(toks, k) = 0)

TopBindingNames(toks) ==
    LET pos == TopBindingPositions(toks) IN [k \in 1..Len(pos) |-> toks[pos[k]]]

AllBindingNames(toks) ==
    LET pos == AllBindingPositions(toks) IN [k \in 1..Len(pos) |-> toks[pos[k]]]

IsTimeoutStatement(stmt) ==
    Len(stmt) = 5 /\ stmt[1] = "SET" /\ stmt[2] = "statement_timeout" /\ stmt[3] = "="
                  /\ stmt[5] = ";"

IsCreateStatement(stmt) ==
    Len(stmt) > 6 /\ stmt[1] = "CREATE" /\ stmt[2] = "TEMP" /\ stmt[3] = "TABLE"
                  /\ stmt[5] = "AS"

IsSetVariableStatement(stmt) ==
    Len(stmt) > 4 /\ stmt[1] = "SET" /\ stmt[2] = "variable" /\ stmt[4] = "="

\* one statement: WITH ... ; and no other terminator inside
IsCombinedStatement(stmt) ==
    /\ Len(stmt) >= 2
    /\ stmt[1] = "WITH"
    /\ \A k \in 1..Len(stmt) : stmt[k] = ";" <=> k = Len(stmt)
    /\ \A k \in 1..Len(stmt) : stmt[k] # "CREATE"

HasFilter(item, kind) ==
    /\ item.kind = "objects"
    /\ item.filters # None
    /\ \E k \in 1..Len(Unwrap(item.filters)) :
          CASE kind = "area" -> Unwrap(item.filters)[k].area_id # NONE
            [] kind = "poly" -> IsSome(Unwrap(item.filters)[k].poly)
            [] kind = "ids" -> IsSome(Unwrap(item.filters)[k].ids)

OutItems == SelectSeq(Items, IsOut)

-----------------------------------------------------------------------------
(* Claims *)

C4_CteNamesUnique ==
    pc = "done" =>
        LET names == TopBindingNames(result[Len(result)]) IN
        \A j, k \in 1..Len(names) : names[j] = names[k] => j = k

BaseTables ==
    {t \o suffix : t \in {"node", "way", "relation", "nwr", "area"},
                   suffix \in {"_by_id", "_by_geom"}}

\* what follows FROM or JOIN and is no set: a subquery, a table function, the tables of
\* the recursion
NotASet ==
    {"(", "LATERAL", "VALUES", "jsonb_to_recordset(members)", "node", "way"}
        \cup {Unwrap(st_dump_points(d)) \o "(geom)" : d \in {e \in Dialects : IsSome(st_dump_points(e))}}

TableRefs(toks) ==
    {toks[k + 1] : k \in {j \in 1..(Len(toks) - 1) : toks[j] \in {"FROM", "JOIN"}}} \ NotASet

Declared(stmts) ==
    UNION {Range(AllBindingNames(stmts[k]))
             \cup (IF IsCreateStatement(stmts[k]) THEN {stmts[k][4]} ELSE {}) :
           k \in 1..Len(stmts)}

\* the sets an item names, other than the default set
RECURSIVE ExplicitRefs(_)
ExplicitRefs(item) ==
    CASE item.kind = "out" -> {item.set} \ {NONE}
      [] item.kind = "objects" ->
            ({item.set} \ {NONE, "_"})
            \cup (IF item.filters = None THEN {}
                  ELSE {Unwrap(item.filters)[k].area_id : k \in 1..Len(Unwrap(item.filters))}
                           \ {NONE})
      [] item.kind = "union" -> UNION {ExplicitRefs(item.queries[k]) : k \in 1..Len(item.queries)}
      [] OTHER -> {}

ReferencesBound ==
    \A i \in 1..Len(Items) :
        ExplicitRefs(Items[i]) \subseteq
            {Items[j].asignation : j \in {h \in 1..(i - 1) : ~IsOut(Items[h])}}

UsesDefault(item) ==
    CASE item.kind = "out" -> item.set = NONE
      [] item.kind = "objects" -> item.set = "_"
      [] item.kind = "recurse" -> TRUE
      [] OTHER -> FALSE

\* an item reads the default set only after some query
DefaultReadsFollowQuery ==
    \A i \in 1..Len(Items) :
        UsesDefault(Items[i]) => \E j \in 1..(i - 1) : ~IsOut(Items[j])

\* C5: every set named after FROM or JOIN is a CTE of the emission, a precomputed set or
\* a base table <type>_by_id / <type>_by_geom, whenever the request names only sets bound
\* by an earlier query; so are the default set an out reads after explicitly bound
\* queries and the default set a query reads with "_".
C5_ReferencesDeclared ==
    (pc = "done" /\ ReferencesBound /\ DefaultReadsFollowQuery) =>
        \A k \in 1..Len(result) :
            TableRefs(result[k]) \subseteq (BaseTables \cup Declared(result))

\* C6: the value handed to statement_timeout is min(t, 500) * 1000 for the request's
\* timeout t; it is at most 500000 and the multiplication does not overflow 32 bits.
C6_TimeoutClamped ==
    (pc = "done" /\ IsSome(request.timeout)) =>
        LET t == Unwrap(request.timeout)
            ms == Unwrap(timeout_arg)
            clamped == IF t[1] > 0 \/ t[2] > 500 THEN 500 ELSE t[2]
        IN  /\ ~ms.overflow
            /\ ms.hi < 8
            /\ ms.hi * Limb + ms.lo = clamped * 1000
            /\ ms.hi * Limb + ms.lo <= 500000

C6_Witness ==
    /\ pc = "done"
    /\ request.timeout = Some(<<Limb - 1, Limb - 1>>)
    /\ timeout_arg = Some([overflow |-> FALSE, hi |-> 500000 \div Limb, lo |-> 500000 % Limb])

\* C7: a request whose text gives no timeout runs with 160 seconds (160000 ms), be it
\* without metadata or with metadata that holds no timeout, as "[out:json]".
C7_DefaultTimeout ==
    (pc = "done" /\ (~input.meta.present \/ input.meta.number = None)) =>
        timeout_arg = Some([overflow |-> FALSE, hi |-> 160000 \div Limb,
                            lo |-> 160000 % Limb])

\* the most recent query before item i that has no explicit binding, 0 if none
LastUnbound(i) ==
    LET before == {j \in 1..(i - 1) : ~lowered[j].is_out /\ ~lowered[j].bound} IN
    IF before = {} THEN 0 ELSE CHOOSE j \in before : \A h \in before : h <= j

\* C8: an explicitly bound query leaves the previous-default-set cursor as it was; a
\* query without binding is declared under a fresh counter name and the cursor moves to
\* it; a later item that reads the default set reads exactly the CTE declared by the most
\* recent query without binding.
C8_DefaultSetCursor ==
    \A i \in 1..Len(lowered) :
        LET e == lowered[i] IN
        /\ (~e.is_out /\ e.bound) => e.cursor_after = e.cursor_before
        /\ (~e.is_out /\ ~e.bound) =>
              /\ e.cursor_after # e.cursor_before
              /\ e.declared = "_" \o e.cursor_after
              /\ \A j \in 1..(i - 1) : lowered[j].declared # e.declared
        /\ (e.uses_default /\ LastUnbound(i) # 0) => e.from = lowered[LastUnbound(i)].declared

\* the part of the combined statement after its last binding, without the terminator
SelectTail(stmt) ==
    LET closed == {k \in 1..Len(stmt) : stmt[k] = ")" /\ Depth(stmt, k) = 1}
        last == IF closed = {} THEN 1 ELSE CHOOSE k \in closed : \A j \in closed : j <= k
    IN  SubSeq(stmt, last + 1, Len(stmt) - 1)

\* C9: the WITH bindings come in the order the items are declared, and the final SELECT
\* is one "SELECT * FROM _out_<set>" per Out, in order, joined by UNION ALL; a query
\* contributes no branch.
C9_DeclarationOrder ==
    pc = "done" =>
        LET combined == result[Len(result)]
            created == {result[k][4] : k \in {j \in 1..Len(result) : IsCreateStatement(result[j])}}
            kept == SelectSeq(lowered, LAMBDA e : e.is_out \/ e.declared \notin created)
            names == [k \in 1..Len(kept) |-> kept[k].declared]
            outs == SelectSeq(lowered, LAMBDA e : e.is_out)
        IN  /\ SelectSeq(TopBindingNames(combined), LAMBDA n : n \in Range(names)) = names
            /\ SelectTail(combined) =
                  Join([k \in 1..Len(outs) |-> <<"SELECT", "*", "FROM", outs[k].declared>>],
                       <<"UNION", "ALL">>)

C9_Witness ==
    /\ pc = "done"
    /\ Len(lowered) = 3
    /\ ~lowered[1].is_out
    /\ lowered[2].is_out
    /\ lowered[3].is_out
    /\ lowered[2].declared # lowered[3].declared

\* the projection of an emitted Out: the tokens between SELECT and its FROM
ProjectionEnd(sql) ==
    CHOOSE k \in 1..Len(sql) : sql[k] = "FROM" /\ Depth(sql, k) = 0

\* C10: every Out, whatever its geometry mode and level of detail and in both dialects,
\* emits exactly one column, aliased j.
C10_OutSingleColumn ==
    \A c \in 1..Len(clauses) :
        clauses[c].is_out =>
            LET sql == clauses[c].sql
                end == ProjectionEnd(sql)
            IN  /\ sql[1] = "SELECT"
                /\ \E k \in 1..Len(sql) : sql[k] = "FROM" /\ Depth(sql, k) = 0
                /\ \A k \in 2..(end - 1) : Depth(sql, k) = 0 => sql[k] # ","
                /\ {k \in 2..(end - 1) : Depth(sql, k) = 0 /\ sql[k] = "AS"} = {end - 2}
                /\ sql[end - 1] = "j"

C10_Witness ==
    /\ pc = "done"
    /\ dialect = "duckdb"
    /\ \E c \in 1..Len(clauses) : clauses[c].is_out
    /\ \E k \in 1..Len(Items) :
          IsOut(Items[k]) /\ Items[k].geom = "geom" /\ Items[k].level_of_details = "meta"

\* the main clause of the k-th lowered item, as kept by the history
WhereOf(sql) ==
    LET at == CHOOSE k \in 1..Len(sql) : sql[k] = "WHERE" /\ Depth(sql, k) = 0 IN
    SubSeq(sql, at + 1, Len(sql))

\* the query under study: the second item of an ObjectsInputs request
StudiedQuery == Items[2]

\* C11: a QueryObjects reads _set when it has an explicit input set; otherwise
\* <type>_by_id when the type is nwr or some filter has ids; otherwise <type>_by_geom.
C11_FromSource ==
    (Len(lowered) >= 2 /\ StudiedQuery.kind = "objects") =>
        LET q == StudiedQuery
            has_ids == q.filters # None
                       /\ \E k \in 1..Len(Unwrap(q.filters)) : IsSome(Unwrap(q.filters)[k].ids)
        IN  lowered[2].from =
                IF q.set # NONE THEN "_" \o q.set
                ELSE IF q.object_type = "nwr" \/ has_ids THEN q.object_type \o "_by_id"
                ELSE q.object_type \o "_by_geom"

\* C12: the WHERE clause of a QueryObjects conjoins, in this order, the object-type
\* discriminant (osm_type = 'n', 'w', 'r', 'a' for node, way, relation, area; none for
\* nwr only), the conjunction of the selectors and the conjunction of the filters; an
\* empty selector list and an absent filter group add nothing.
C12_WhereOrder ==
    (Len(lowered) >= 2 /\ pc = "lower" /\ StudiedQuery.kind = "objects") =>
        LET q == StudiedQuery
            letter == CASE q.object_type = "node" -> "'n'"
                        [] q.object_type = "way" -> "'w'"
                        [] q.object_type = "relation" -> "'r'"
                        [] q.object_type = "area" -> "'a'"
                        [] OTHER -> ""
            discriminant == IF q.object_type = "nwr" THEN <<>>
                            ELSE << <<"osm_type", "=", letter>> >>
            selector_part == IF q.selectors = <<>> THEN <<>>
                             ELSE << Join([k \in 1..Len(q.selectors) |->
                                              Selector_to_sql(q.selectors[k], dialect)],
                                          <<"AND">>) >>
            filter_part == IF q.filters = None THEN <<>>
                           ELSE << Filters_to_sql(Unwrap(q.filters), dialect,
                                                  lowered[2].from, srid)[2].clauses >>
        IN  WhereOf(clauses[Len(clauses)].sql)
                = Join(discriminant \o selector_part \o filter_part, <<"AND">>)

\* the text of the bbox filter of a tree of BboxTrees, cut at the commas and trimmed
BboxTexts ==
    LET text == input.inner[1].inner[1].inner[1].inner[2].inner[1].text
        pieces == Split(text, ",")
    IN  [k \in 1..Len(pieces) |-> Trim(pieces[k])]

FourNumbers == input \in BboxTrees /\ \A k \in 1..4 : IsNumber(BboxTexts[k])

\* C13: a bbox filter written (south, west, north, east) with four numbers is emitted as
\* one extent-intersection predicate between the table and the envelope of the linestring
\* "west south, east north", transformed to the working SRID
C13_BboxEnvelope ==
    (FourNumbers /\ pc = "lower" /\ Len(lowered) = 1) =>
        LET south == Concat(BboxTexts[1])
            west == Concat(BboxTexts[2])
            north == Concat(BboxTexts[3])
            east == Concat(BboxTexts[4])
            envelope == <<"ST_Envelope", "(",
                          "'SRID=4326;LINESTRING(" \o west \o " " \o south \o ", "
                              \o east \o " " \o north \o ")'::geometry", ")">>
        IN  WhereOf(clauses[1].sql) =
                <<"osm_type", "=", "'n'", "AND">>
                \o st_intersects_extent_with_geom(dialect, lowered[1].from,
                                                  st_transform(dialect, envelope, <<srid>>))

C13_Witness ==
    /\ FourNumbers
    /\ pc = "lower"
    /\ Len(lowered) = 1
    /\ BboxTexts = << <<"1">>, <<"2">>, <<"-", "3">>, <<"4">> >>
    /\ Items[1].filters = Some(<<BboxFilter(<<1, 2, 0 - 3, 4>>)>>)

\* the keys of the JSON object an Out builds: the first token of every other argument
\* of the object constructor
OutFields(sql) ==
    LET open == CHOOSE k \in 1..Len(sql) : sql[k] = "(" /\ Depth(sql, k) = 1
        starts == {open} \cup {k \in 1..Len(sql) : sql[k] = "," /\ Depth(sql, k) = 2}
    IN  {sql[k + 1] : k \in {j \in starts : Cardinality({i \in starts : i < j}) % 2 = 0}}

\* the word an "out" statement of OutTrees gives for a rule, or the default
OutWord(rule, default) ==
    LET out == input.inner[1].inner[2]
        given == SelectSeq(out.inner, LAMBDA p : p.rule = rule)
    IN  IF given = <<>> THEN default ELSE Concat(given[1].text)

\* C14: the JSON fields of an Out are fixed by its level and geometry mode: type, id,
\* lon, lat always; nodes and members at skel, body, meta; tags at body, tags, meta;
\* timestamp, version, changeset, user, uid at meta; center for center; bounds for bb
\* and geom; geometry for geom; a bare "out" is geom "geom", level "body".
C14_OutFields ==
    input \in OutTrees =>
        \A c \in 1..Len(clauses) :
            clauses[c].is_out =>
                LET level == OutWord("out_level_of_details", "body")
                    geom == OutWord("out_geom", "geom")
                IN  OutFields(clauses[c].sql) =
                        {"'type'", "'id'", "'lon'", "'lat'"}
                        \cup (IF level \in {"skel", "body", "meta"}
                              THEN {"'nodes'", "'members'"} ELSE {})
                        \cup (IF level \in {"body", "tags", "meta"} THEN {"'tags'"} ELSE {})
                        \cup (IF level = "meta"
                              THEN {"'timestamp'", "'version'", "'changeset'", "'user'", "'uid'"}
                              ELSE {})
                        \cup (IF geom = "center" THEN {"'center'"} ELSE {})
                        \cup (IF geom \in {"bb", "geom"} THEN {"'bounds'"} ELSE {})
                        \cup (IF geom = "geom" THEN {"'geometry'"} ELSE {})

C14_Witness ==
    /\ input \in OutTrees
    /\ input.inner[1].inner[2].inner = <<>>
    /\ pc = "done"
    /\ \E c \in 1..Len(clauses) :
          /\ clauses[c].is_out
          /\ OutFields(clauses[c].sql) =
                {"'type'", "'id'", "'lon'", "'lat'", "'bounds'", "'geometry'", "'nodes'",
                 "'members'", "'tags'"}

\* the selector pairs of the query of a tree of SelectorTrees
SelectorPairs == SelectSeq(input.inner[1].inner[1].inner[1].inner, LAMBDA p : p.rule = "selector")

\* the text of the child of a rule in a selector pair, without its quotes, if there is one
SelectorText(pair, rule) ==
    LET given == SelectSeq(pair.inner, LAMBDA p : p.rule = rule) IN
    IF given = <<>> THEN None ELSE Some(Unquote(given[1].text))

Quoted(cs) == "'" \o Concat([k \in 1..Len(cs) |-> IF cs[k] = "'" THEN "''" ELSE cs[k]]) \o "'"

\* the lowering of one selector as the forms give it
SelectorForm(pair) ==
    LET key == Unwrap(SelectorText(pair, "key"))
        exists == IF dialect = "postgres" THEN <<"tags?" \o Quoted(key)>>
                  ELSE <<"(tags->>" \o Quoted(key) \o ")", "IS", "NOT", "NULL">>
        get == IF dialect = "postgres" THEN <<"tags->>" \o Quoted(key)>>
               ELSE <<"(tags->>" \o Quoted(key) \o ")">>
        op == SelectorText(pair, "operator")
        v == Unwrap(SelectorText(pair, "value"))
    IN  CASE op = None /\ SelectorText(pair, "not") = None -> exists
          [] op = None /\ SelectorText(pair, "not") # None -> <<"NOT">> \o exists
          [] op = Some(<<"=">>) -> <<"(">> \o exists \o <<"AND">> \o get \o <<"=", Quoted(v), ")">>
          [] op = Some(<<"!=">>) ->
                <<"(", "NOT">> \o exists \o <<"OR">> \o get \o <<"!=", Quoted(v), ")">>
          [] op = Some(<<"~">>) ->
                <<"(">> \o exists \o <<"AND">> \o get \o <<"~", "'" \o Concat(v) \o "'", ")">>
          [] op = Some(<<"!~">>) ->
                <<"(", "NOT">> \o exists \o <<"OR">> \o get
                    \o <<"!~", "'" \o Concat(v) \o "'", ")">>

C16_UnknownRuleIsError ==
    (input \in UnknownTrees /\ pc # "parse") =>
        /\ pc = "error"
        /\ request.kind = "err"
        /\ request.span = BadSpan

\* the first filter pair of the q-th query of a tree
FilterPair(tree, q) == tree.inner[1].inner[1].inner[q].inner[2].inner[1]

\* the filter of the tree holds a number that does not parse: a bbox coordinate, a single
\* id, an id of an id list out of the range of i64, an around radius
BadNumber ==
    \/ input \in BboxTrees /\ \E k \in 1..4 : ~IsNumber(BboxTexts[k])
    \/ /\ input \in IdTrees
       /\ LET f == FilterPair(input, 1) IN
          IF f.rule = "filter_osm_id" THEN f.text \in {<<"x">>, Append(SubSeq(I64MaxDigits, 1, 18), "8")}
          ELSE \E k \in 1..Len(f.inner) :
                  f.inner[k].text \in {<<"x">>, Append(SubSeq(I64MaxDigits, 1, 18), "8")}
    \/ /\ input \in AroundTrees
       /\ FilterPair(input, 2).rule = "filter_around"
       /\ FilterPair(input, 2).inner[2].text = <<"x">>

\* C17: a number of a filter that does not parse makes the construction of the Filter
\* return a parse error: no Filter without a kind, with a shorter list of ids or with a
\* radius of 0 is built.
C17_BadNumberIsError ==
    (BadNumber /\ pc # "parse") => (pc = "error" /\ request.kind = "err")

\* C18: compiling an input (parse_query, then Request::to_sql) ends with an error value
\* or with the complete list of statements; it never panics, whatever the poly string,
\* the timeout or the regular expression of a selector.
C18_NeverPanics ==
    /\ pc # "panic"
    /\ pc = "error" => request.kind = "err"
    /\ pc = "done" => (result # <<>> /\ IsCombinedStatement(result[Len(result)]))

\* the token after the last FROM that is not inside parentheses
LastFrom(toks) ==
    LET at == {k \in 1..(Len(toks) - 1) : toks[k] = "FROM" /\ Depth(toks, k) = 0} IN
    toks[(CHOOSE k \in at : \A j \in at : j <= k) + 1]

\* the tokens of the binding at position k, between its parentheses
BindingBody(toks, k) ==
    LET close == CHOOSE j \in (k + 3)..Len(toks) :
                    /\ toks[j] = ")"
                    /\ Depth(toks, j) = Depth(toks, k) + 1
                    /\ \A i \in (k + 3)..(j - 1) :
                          toks[i] = ")" => Depth(toks, i) # Depth(toks, k) + 1
    IN  SubSeq(toks, k + 3, close - 1)

\* C19: with a finalizer template the statement has one more CTE, __finalizer, after all
\* the others; its body is the template with every {{query}} replaced by the final default
\* set identifier, which names a CTE declared in the statement; the final SELECT reads
\* from __finalizer.  Without a template there is no __finalizer CTE.
C19_Finalizer ==
    (pc = "done" /\ "finalizer" \in DOMAIN input) =>
        LET sql == result[1]
            pos == TopBindingPositions(sql)
            names == TopBindingNames(sql)
        IN  IF IsSome(input.finalizer)
            THEN /\ Cardinality({k \in 1..Len(names) : names[k] = "__finalizer"}) = 1
                 /\ names[Len(names)] = "__finalizer"
                 /\ \E k \in 1..(Len(names) - 1) :
                       BindingBody(sql, pos[Len(pos)]) = Replace(Unwrap(input.finalizer), names[k])
                 /\ LastFrom(sql) = "__finalizer"
            ELSE \A k \in 1..Len(names) : names[k] # "__finalizer"

\* the query and every query under it has an explicit binding
RECURSIVE Bound(_)
Bound(q) ==
    /\ QueryType_asignation(q) # NONE
    /\ q.kind = "union" => \A k \in 1..Len(q.queries) : Bound(q.queries[k])

AllBound(r) ==
    \A k \in 1..Len(r.subrequest.queries) :
        ~IsOut(r.subrequest.queries[k]) => Bound(r.subrequest.queries[k])

AutoNames(t) == SelectSeq(threads[t].lowered, LAMBDA l : l.fresh)

\* the number a counter-derived name was made from
NameValue(set) ==
    CHOOSE n \in 0..(Cardinality(Threads) * (1 + 3 * MaxQueries)) : ToString(n) = set

\* C21: under every interleaving of the compilations, no counter-derived set name is handed
\* out twice; within one emission the counter-derived names are pairwise distinct and
\* strictly increasing in item order; and every query that reads the default set reads a
\* CTE declared earlier by the same emission.
C21_ConcurrentNames ==
    (pc = "threads") =>
        /\ \A t, u \in Threads :
              \A j \in 1..Len(AutoNames(t)), k \in 1..Len(AutoNames(u)) :
                  (t # u \/ j # k) => AutoNames(t)[j].set # AutoNames(u)[k].set
        /\ \A t \in Threads :
              \A j, k \in 1..Len(AutoNames(t)) :
                  j < k => NameValue(AutoNames(t)[j].set) < NameValue(AutoNames(t)[k].set)
        /\ \A t \in Threads :
              \A k \in 1..Len(threads[t].lowered) :
                  threads[t].lowered[k].uses_default =>
                      \E j \in 1..(k - 1) :
                          threads[t].lowered[k].from = "_" \o threads[t].lowered[j].set

\* the children of union u that take their name from the counter, among the first k
Unbound(u, k) == {j \in 1..k : QueryType_asignation(u.queries[j]) = NONE}

\* the set of the k-th child: its binding, else the value the counter had for it
ChildSet(u, k, after) ==
    IF QueryType_asignation(u.queries[k]) # NONE THEN QueryType_asignation(u.queries[k])
    ELSE ToString(after - Cardinality(Unbound(u, Len(u.queries)))
                  + Cardinality(Unbound(u, k - 1)))

\* the polygon companions and the precompute references of a child
ChildCompanions(q, d, s) ==
    IF q.filters = None THEN <<>>
    ELSE LET fs == SelectSeq(Unwrap(q.filters), LAMBDA f : IsSome(f.poly))
         IN  [k \in 1..Len(fs) |-> PolyId(d, Unwrap(fs[k].poly), s)]

ChildReferences(q, d, s) ==
    IF q.filters = None \/ ~is_precompute(d) THEN <<>>
    ELSE LET fs == Unwrap(q.filters)
         IN  Flatten([k \in 1..Len(fs) |->
                (IF IsSome(fs[k].poly) THEN <<PolyId(d, Unwrap(fs[k].poly), s)>> ELSE <<>>)
                \o (IF fs[k].area_id # NONE THEN <<fs[k].area_id>> ELSE <<>>)])

\* the union lowered as the first item of the request
UnionLowered ==
    /\ pc = "lower"
    /\ idx = 2
    /\ Items[1].kind = "union"
    /\ \A k \in 1..Len(Items[1].queries) : Items[1].queries[k].kind = "objects"

\* C22: the text of a union binds each child once, in order, as _<set> in its own WITH,
\* and its SELECT DISTINCT ON(osm_type, id) reads (SELECT * FROM _<set>) for each child in
\* the same order, joined by UNION, ordered by osm_type, id; the polygon companions of the
\* children are returned beside the union and are no members of it; the precompute
\* references of the children are gathered on the result.
C22_UnionMembers ==
    UnionLowered =>
        LET u == Items[1]
            n == Len(u.queries)
            sql == clauses[Len(clauses)].sql
            sets == [k \in 1..n |-> "_" \o ChildSet(u, k, UNION_COUNTER)]
            tail == <<"SELECT", "DISTINCT", "ON", "(osm_type, id)", "*", "FROM", "(">>
                    \o Join([k \in 1..n |-> <<"(", "SELECT", "*", "FROM", sets[k], ")">>],
                            <<"UNION">>)
                    \o <<")", "AS", "t", "ORDER", "BY", "osm_type, id">>
            companions == Flatten([k \in 1..n |-> ChildCompanions(u.queries[k], dialect, srid)])
        IN  /\ sql[1] = "WITH"
            /\ TopBindingNames(sql) = sets
            /\ Len(sql) > Len(tail)
            /\ SubSeq(sql, Len(sql) - Len(tail) + 1, Len(sql)) = tail
            /\ sql[Len(sql) - Len(tail)] = ")"
            /\ [k \in 1..(Len(clauses) - 1) |-> clauses[k].set] = companions
            /\ \A k \in 1..Len(companions) : ~Contains(sets, "_" \o companions[k])
            /\ precomputed
                  = Flatten([k \in 1..n |-> ChildReferences(u.queries[k], dialect, srid)])

\* a union of a bound child, a child named by the counter and a child with a polygon
C22_Witness ==
    /\ UnionLowered
    /\ dialect = "duckdb"
    /\ \E k \in 1..Len(Items[1].queries) : Items[1].queries[k].asignation = "a"
    /\ \E k \in 1..Len(Items[1].queries) :
          /\ Items[1].queries[k].asignation = NONE
          /\ Items[1].queries[k].filters = None
    /\ \E k \in 1..Len(Items[1].queries) :
          ChildCompanions(Items[1].queries[k], dialect, srid) # <<>>
    /\ Len(TopBindingNames(clauses[Len(clauses)].sql)) = 3

\* C23: the recursion '>' over S returns three branches: the nodes listed by a way of S,
\* the nodes that are members of type n of a relation of S, and the ways that are
\* members of type w of a relation of S (so a branch is non-empty whenever S holds such
\* a way or relation and the objects exist).
C23_RecurseBranches ==
    (pc = "rows") =>
        /\ result[1] = { n \in input.node : \E w \in input.S :
                            /\ w.osm_type = "w"
                            /\ \E k \in 1..Len(w.nodes) : w.nodes[k] = n.id }
        /\ result[2] = { n \in input.node : \E r \in input.S :
                            /\ r.osm_type = "r"
                            /\ \E k \in 1..Len(r.members) :
                                  r.members[k].type = "n" /\ r.members[k].ref = n.id }
        /\ result[3] = { w \in input.way : \E r \in input.S :
                            /\ r.osm_type = "r"
                            /\ \E k \in 1..Len(r.members) :
                                  r.members[k].type = "w" /\ r.members[k].ref = w.id }

\* the recursion of a request of RecurseTrees, and what its text gives
RecursePair == input.inner[1].inner[1].inner[2]

RecurseGiven(rule) ==
    LET at == {k \in 1..Len(RecursePair.inner) : RecursePair.inner[k].rule = rule} IN
    IF at = {} THEN NONE
    ELSE LET p == RecursePair.inner[CHOOSE k \in at : TRUE]
         IN  IF rule = "ID" THEN Concat(p.text) ELSE Concat(p.inner[1].text)

\* the tables of the FROMs that are not inside parentheses
FromTables(toks) ==
    LET at == SelectSeq(Indices(toks),
                        LAMBDA k : k < Len(toks) /\ toks[k] = "FROM" /\ Depth(toks, k) = 0)
    IN  [k \in 1..Len(at) |-> toks[at[k] + 1]]

\* C24: a recursion parses with or without an input set; with the input set .a its three
\* branches read _a, without one they read the previous default set; its result is bound
\* under its ->.name, else under a name taken from the counter.
C24_RecurseSets ==
    ("rule" \in DOMAIN input /\ input.inner[1].inner[1].inner[1].rule = "query_object") =>
        /\ pc # "error"
        /\ (pc = "done") =>
              /\ FromTables(clauses[2].sql)
                    = [k \in 1..3 |-> "_" \o (IF RecurseGiven("ID") # NONE
                                              THEN RecurseGiven("ID")
                                              ELSE lowered[2].cursor_before)]
              /\ lowered[2].declared
                    = "_" \o (IF RecurseGiven("asignation") # NONE
                              THEN RecurseGiven("asignation")
                              ELSE lowered[2].cursor_after)
              /\ RecurseGiven("asignation") = NONE => lowered[2].cursor_after = ToString(COUNTER - 1)

\* the places where the tokens sub stand in toks
Occurrences(sub, toks) ==
    {k \in 1..(Len(toks) - Len(sub) + 1) : SubSeq(toks, k, k + Len(sub) - 1) = sub}

\* the sets the poly and area filters of a filter group name, in order
GeometrySets(filters, d, s) ==
    Flatten([k \in 1..Len(filters) |->
        (IF IsSome(filters[k].poly) THEN <<PolyId(d, Unwrap(filters[k].poly), s)>> ELSE <<>>)
        \o (IF filters[k].area_id # NONE THEN <<filters[k].area_id>> ELSE <<>>)])

\* the second query of an ObjectsInputs request has just been lowered
StudiedLowered ==
    /\ pc = "lower"
    /\ Len(lowered) = 2
    /\ StudiedQuery.kind = "objects"
    /\ StudiedQuery.filters # None

\* C25: for the poly and area filters of a query, a dialect that does not precompute gets
\* one JOIN _<set> ON true per filter, a predicate on _<set>.geom and no precompute
\* reference; a dialect that precomputes gets no JOIN, the set in the precompute list and
\* a predicate on table_precompute_geom(set); the predicates of the filters are joined
\* with AND in the order of the filters.
C25_GeometryFilters ==
    StudiedLowered =>
        LET fs == Unwrap(StudiedQuery.filters)
            sql == clauses[Len(clauses)].sql
            sets == GeometrySets(fs, dialect, srid)
            table == QueryObjects_from_table(StudiedQuery, "_")
            predicates == Join([k \in 1..Len(fs) |->
                                  Filter_to_sql(fs[k], dialect, table, srid)[2].clauses],
                               <<"AND">>)
            where == WhereOf(sql)
        IN  /\ \A k \in 1..Len(sets) :
                  /\ Cardinality(Occurrences(<<"JOIN", "_" \o sets[k], "ON", "true">>, sql))
                        = IF is_precompute(dialect) THEN 0
                          ELSE Cardinality({j \in 1..Len(sets) : sets[j] = sets[k]})
                  /\ Occurrences(<<"ST_Intersects", "(">>
                                 \o table_precompute_geom(dialect, sets[k])
                                 \o <<",", table \o ".geom", ")">>, where) # {}
                  /\ ~is_precompute(dialect) =>
                        table_precompute_geom(dialect, sets[k]) = <<"_" \o sets[k], ".geom">>
            /\ is_precompute(dialect) => Occurrences(<<"JOIN">>, sql) = {}
            /\ precomputed = IF is_precompute(dialect) THEN sets ELSE <<>>
            /\ Len(where) >= Len(predicates)
            /\ SubSeq(where, Len(where) - Len(predicates) + 1, Len(where)) = predicates

\* a query with a poly filter and an area filter, lowered for a precomputing dialect
C25_Witness ==
    /\ StudiedLowered
    /\ is_precompute(dialect)
    /\ Len(precomputed) = 2
    /\ \E k \in 1..2 : IsSome(Unwrap(StudiedQuery.filters)[k].poly)
    /\ \E k \in 1..2 : Unwrap(StudiedQuery.filters)[k].area_id # NONE

\* a selector holds on the tags
Holds(sel, tags) ==
    CASE sel.operator = NONE -> (sel.key \in DOMAIN tags) = ~sel.not
      [] sel.operator = "=" -> sel.key \in DOMAIN tags /\ tags[sel.key] = Unwrap(sel.value)
      [] sel.operator = "!=" -> sel.key \in DOMAIN tags /\ tags[sel.key] # Unwrap(sel.value)
      [] sel.operator = "~" ->
            sel.key \in DOMAIN tags /\ is_match(Unwrap(sel.value_regex), tags[sel.key])
      [] sel.operator = "!~" ->
            sel.key \in DOMAIN tags /\ ~is_match(Unwrap(sel.value_regex), tags[sel.key])

\* C26: Selectors.matches is None iff some selector does not hold on the tags, and else
\* the sorted list, without duplicates, of the keys of the selectors that matched a
\* present key; [k] holds iff k is present, [!k] iff absent, [k=v] iff the value is v,
\* [k!=v] iff it differs, [k~r] iff r matches it, [k!~r] iff r does not match it.
C26_Matches ==
    (pc = "matched") =>
        LET sels == input.selectors
            tags == input.tags
        IN  result[1] =
                IF \E k \in 1..Len(sels) : ~Holds(sels[k], tags) THEN None
                ELSE Some(SelectSeq(TagKeys,
                            LAMBDA key : /\ key \in DOMAIN tags
                                         /\ \E k \in 1..Len(sels) : sels[k].key = key))

\* the places of the keyword WHERE of a SELECT itself, not of its subqueries
TopWheres(sql) == {k \in 1..Len(sql) : sql[k] = "WHERE" /\ Depth(sql, k) = 0}

\* the second query of an ObjectsInputs request has just been lowered
QueryLowered ==
    /\ pc = "lower"
    /\ Len(lowered) = 2
    /\ StudiedQuery.kind = "objects"

\* C27: in the SELECT emitted for a QueryObjects, either the keyword WHERE is followed
\* by at least one predicate or there is no WHERE, also for a query with no type
\* discriminant, no selectors and no filters.
C27_WhereWellFormed ==
    QueryLowered =>
        LET sql == clauses[Len(clauses)].sql IN
        \A k \in TopWheres(sql) : k < Len(sql)

\* the texts the selectors of the tree give after an operator, without their quotes
SelectorValues ==
    {Unwrap(SelectorText(SelectorPairs[k], "value")) :
        k \in {j \in 1..Len(SelectorPairs) : SelectorText(SelectorPairs[j], "value") # None}}

\* the literals that stand after the operator of a selector in a WHERE part
ValueLiterals(where) ==
    {where[k + 1] :
        k \in {j \in 1..(Len(where) - 1) :
                  where[j] \in {"=", "!=", "~", "!~"} /\ Depth(where, j) >= 1}}

\* C28: a value of = or != and a pattern of ~ or !~ reach the emitted SQL only as the
\* result of the dialect's escape_literal, so that a single quote inside them never ends
\* the literal they are placed in.
C28_LiteralsEscaped ==
    (input \in SelectorTrees /\ pc = "lower" /\ Len(lowered) = 1) =>
        ValueLiterals(WhereOf(clauses[1].sql))
            = {escape_literal(dialect, v) : v \in SelectorValues}

\* the statement creates the table
Creates(statement, table) ==
    Len(statement) >= 4 /\ SubSeq(statement, 1, 4) = <<"CREATE", "TEMP", "TABLE", table>>

\* the variables a statement reads with getvariable
VariablesRead(statement) ==
    {v \in {"_" \o set \o "_bbox" : set \in {"a", "b", PolyId(dialect, Poly1, srid)}} :
        Contains(statement, "getvariable('" \o v \o "')")}

\* the statement sets the variable
Sets(statement, variable) ==
    Len(statement) >= 3 /\ SubSeq(statement, 1, 3) = <<"SET", "variable", variable>>

\* the body of a CREATE TEMP TABLE _X AS ... ;
CreatedFrom(statement) == SubSeq(statement, 6, Len(statement) - 1)

\* C29: the statements of a precomputing emission can be executed in order: a set that a
\* CREATE TEMP TABLE reads and a variable that any statement reads with getvariable are
\* defined by a statement placed earlier in the list; a precomputed set never depends on
\* a CTE of the final WITH.
C29_ExecutableInOrder ==
    (input \in PrecomputeInputs /\ pc = "done" /\ is_precompute(dialect)) =>
        \A k \in 1..Len(result) :
            /\ (result[k][1] = "CREATE") =>
                  \A table \in TableRefs(CreatedFrom(result[k])) \ BaseTables :
                      \E j \in 1..(k - 1) : Creates(result[j], table)
            /\ \A v \in VariablesRead(result[k]) :
                  \E j \in 1..(k - 1) : Sets(result[j], v)

\* the companion sets of the poly filters of a filter group
PolySets(filters, d, s) ==
    {PolyId(d, Unwrap(filters[k].poly), s) : k \in {j \in 1..Len(filters) : IsSome(filters[j].poly)}}

\* C30: for every poly filter of a query the emission defines the companion set
\* _poly_<hash> of its polygon (and, where sets are precomputed, its variable), also
\* when the query has two poly filters with different polygons.
C30_PolyCompanions ==
    (input \in PolyInputs /\ pc = "done") =>
        \A set \in PolySets(Unwrap(StudiedQuery.filters), dialect, srid) :
            /\ "_" \o set \in Declared(result)
            /\ is_precompute(dialect) =>
                  \E k \in 1..Len(result) : Sets(result[k], "_" \o set \o "_bbox")

====
